---- MODULE Spec2Model ----
(***************************************************************************)
(* Model of the resilient-rap-framework core:                              *)
(*   - TamperEvidentLog (src/src/middleware/provenance.py): the            *)
(*     hash-chained provenance ledger and its integrity verifier;          *)
(*   - EnhancedSemanticTranslator / SemanticTranslator (src/modules):      *)
(*     the hierarchical field-name resolution policy.                      *)
(*                                                                         *)
(* SHA-256 is modelled as a collision-free digest: the digest of a payload *)
(* is the tagged canonical payload.  A payload is a record, which like     *)
(* json.dumps(sort_keys=True) does not depend on the order of its keys.    *)
(* Confidence scores are fixed-point numbers in hundredths (70 is 0.70).   *)
(***************************************************************************)
EXTENDS Integers, Sequences, FiniteSets, TLC

VARIABLES
    log_exists,         \* self.log_file.exists()
    log,                \* the lines of self.log_file, one transaction each
    current_hash,       \* TamperEvidentLog.current_hash
    transaction_count,  \* TamperEvidentLog.transaction_count
    lastOp,             \* the operation that ran last
    ret,                \* what that operation returned to its caller
    tamper,             \* the edit made to the log file behind the ledger's back
    pc,                 \* per thread: position inside log_transaction
    local,              \* per thread: the transaction dict being built
    learned_mappings,   \* EnhancedSemanticTranslator.learned_mappings (insertion ordered)
    resolution_method_used,
    learned_mapping_hits,
    bert_fallback_count,
    encode_calls,       \* the embedding-model calls made by the last resolve
    call,               \* the arguments of the last resolve and the oracle's scores for them
    resolved,           \* what the last resolve returned: (match, confidence)
    feedback_file,      \* the lines of FeedbackManager.feedback_file
    feedback_cache,     \* FeedbackManager.feedback_cache
    fbOp,               \* the FeedbackManager operation that ran last
    fbRet,              \* what it returned, or the exception it raised
    rng_state,          \* the state of the process-wide generator of module random
    simulators,         \* per DriftSimulator: constructed, seed, entropy_distribution
    generators,         \* per DriftSimulator: its stream_chaos generator
    chaos_ret,          \* what the last DriftSimulator call returned or raised
    comparison,         \* the last run_comparison call: its arguments and what it returned
    logged,             \* how many results of it the validation harness has logged
    pending_approvals,  \* HumanInTheLoopOrchestrator.pending_approvals
    submitted           \* how many reviews have been submitted to the orchestrator

ledgerVars == <<log_exists, log, current_hash, transaction_count, lastOp, ret, tamper>>
threadVars == <<pc, local>>
translatorVars == <<learned_mappings, resolution_method_used, learned_mapping_hits,
                    bert_fallback_count, encode_calls, call, resolved>>
feedbackVars == <<feedback_file, feedback_cache, fbOp, fbRet>>
chaosVars == <<rng_state, simulators, generators, chaos_ret>>
harnessVars == <<comparison, logged>>
hitlVars == <<pending_approvals, submitted>>
vars == <<ledgerVars, threadVars, translatorVars, feedbackVars, chaosVars, harnessVars, hitlVars>>

----------------------------------------------------------------------------
(* Bounds and input domains *)

MaxTx == 2

OriginalFields == {"spd", "tmp"}
MappedFields == {"speed", "UNRESOLVED"}
Confidences == {90}
Timestamps == {"t0", "t1"}
MetadataArgs == {"None", "adapter"}
Threads == {"w1", "w2"}

GENESIS == <<"genesis">>
NoTamper == [kind |-> "none", at |-> 0]

----------------------------------------------------------------------------
(* TamperEvidentLog *)

\* hashlib.sha256(canonical_json).hexdigest(), collision-free
_hash_payload(payload) == <<"sha256", payload>>

\* metadata or {}
MetadataOrEmpty(metadata) ==
    IF metadata = "None" THEN "{}" ELSE metadata

\* The payload hashed at append time: the transaction minus previous_hash and metadata.
TransactionPayload(tx) ==
    [transaction_id |-> tx.transaction_id,
     timestamp      |-> tx.timestamp,
     original_field |-> tx.original_field,
     original_hash  |-> tx.original_hash,
     mapped_field   |-> tx.mapped_field,
     mapped_hash    |-> tx.mapped_hash,
     confidence     |-> tx.confidence]

\* The transaction dict before its own hash is attached.
NewTransaction(id, now, original, mapped, confidence, metadata, head) ==
    [transaction_id |-> id,
     timestamp      |-> now,
     original_field |-> original,
     original_hash  |-> _hash_payload([field |-> original, type |-> "original"]),
     mapped_field   |-> mapped,
     mapped_hash    |-> _hash_payload([field |-> mapped, type |-> "mapped"]),
     confidence     |-> confidence,
     previous_hash  |-> head,
     metadata       |-> MetadataOrEmpty(metadata)]

\* transaction["transaction_hash"] = transaction_hash
WithHash(tx) ==
    [transaction_id   |-> tx.transaction_id,
     timestamp        |-> tx.timestamp,
     original_field   |-> tx.original_field,
     original_hash    |-> tx.original_hash,
     mapped_field     |-> tx.mapped_field,
     mapped_hash      |-> tx.mapped_hash,
     confidence       |-> tx.confidence,
     previous_hash    |-> tx.previous_hash,
     metadata         |-> tx.metadata,
     transaction_hash |-> _hash_payload(TransactionPayload(tx))]

\* A head that is never advanced: the bug of dropping line 133.
StaleChainHead(head, tx) == head

\* self.current_hash = transaction_hash
AdvanceChainHead(head, tx) == tx.transaction_hash

\* A counter that is never advanced: the bug of dropping line 134.
StaleCount(count) == count

\* self.transaction_count += 1
IncrementCount(count) == count + 1

\* A verifier payload that keeps metadata in the recomputed hash.
VerifyPayloadWithMetadata(tx) ==
    [transaction_id |-> tx.transaction_id,
     timestamp      |-> tx.timestamp,
     original_field |-> tx.original_field,
     original_hash  |-> tx.original_hash,
     mapped_field   |-> tx.mapped_field,
     mapped_hash    |-> tx.mapped_hash,
     confidence     |-> tx.confidence,
     metadata       |-> tx.metadata]

\* The payload recomputed by the verifier: the stored record minus previous_hash,
\* transaction_hash and metadata.
VerifyPayload(tx) ==
    [transaction_id |-> tx.transaction_id,
     timestamp      |-> tx.timestamp,
     original_field |-> tx.original_field,
     original_hash  |-> tx.original_hash,
     mapped_field   |-> tx.mapped_field,
     mapped_hash    |-> tx.mapped_hash,
     confidence     |-> tx.confidence]

\* A verifier that recomputes the hashes and never follows the links.
LinkNotChecked(tx, previous_hash) == TRUE

\* if tx["previous_hash"] != previous_hash: valid = False
LinkMatches(tx, previous_hash) == tx.previous_hash = previous_hash

\* A verifier that walks the links and never recomputes a hash.
HashNotChecked(tx) == TRUE

\* if tx["transaction_hash"] != expected_hash: valid = False
HashMatches(tx) == tx.transaction_hash = _hash_payload(VerifyPayload(tx))

\* The verifier's loop from record i on, previous_hash being the running value:
\* TRUE when every record passes, FALSE at the first mismatch (break).
RECURSIVE VerifyLoop(_, _, _)
VerifyLoop(transactions, i, previous_hash) ==
    IF i > Len(transactions) THEN TRUE
    ELSE IF ~LinkMatches(transactions[i], previous_hash) THEN FALSE
    ELSE IF ~HashMatches(transactions[i]) THEN FALSE
    ELSE VerifyLoop(transactions, i + 1, transactions[i].transaction_hash)

\* A missing log reported as a broken chain.
NoLogFileInvalid == <<FALSE, [message |-> "No log file found", valid |-> FALSE]>>

\* return True, {"message": "No log file found", "valid": True}
NoLogFileResult == <<TRUE, [message |-> "No log file found", valid |-> TRUE]>>

\* A report that counts the records read instead of using the -1 sentinel.
VerifyReportCountingFailure(valid, transactions, count) ==
    [valid                |-> valid,
     total_transactions   |-> Len(transactions),
     chain_verified_up_to |-> IF valid THEN count ELSE 0]

\* report = {"valid": ..., "total_transactions": ..., "chain_verified_up_to": ...}
VerifyReport(valid, transactions, count) ==
    [valid                |-> valid,
     total_transactions   |-> Len(transactions),
     chain_verified_up_to |-> IF valid THEN count ELSE -1]

\* A line of a file that json.loads rejects: text that is not JSON, or a blank line
Unparsable(line) == "unparsable" \in DOMAIN line
GarbageLine == [unparsable |-> "{\"transaction_id\": 1, \"timest"]
BlankLine == [unparsable |-> ""]

\* json.loads(line) raising json.JSONDecodeError out of the caller
JSONDecodeError == <<"JSONDecodeError">>

\* A verifier that also requires the file to hold as many records as the handle wrote.
VerifyResultCheckingCount(exists, transactions, count) ==
    IF ~exists THEN NoLogFileResult
    ELSE LET valid == VerifyLoop(transactions, 1, GENESIS) /\ Len(transactions) = count
         IN  <<valid, VerifyReport(valid, transactions, count)>>

\* What verify_chain_integrity returns: (is_valid, report); json.loads runs on every
\* line before the walk starts.
VerifyResult(exists, transactions, count) ==
    IF ~exists THEN NoLogFileResult
    ELSE IF \E k \in 1..Len(transactions) : Unparsable(transactions[k]) THEN JSONDecodeError
    ELSE LET valid == VerifyLoop(transactions, 1, GENESIS)
         IN  <<valid, VerifyReport(valid, transactions, count)>>

\* What export_provenance_dataframe returns: the frame as its rows
ExportResult(exists, transactions) ==
    IF ~exists THEN <<"DataFrame", <<>>>>
    ELSE IF \E k \in 1..Len(transactions) : Unparsable(transactions[k]) THEN JSONDecodeError
    ELSE <<"DataFrame", transactions>>

\* FeedbackManager over a feedback file that does not exist yet: _load_feedback
\* leaves the cache empty
FeedbackIdle ==
    /\ feedback_file = <<>>
    /\ feedback_cache = <<>>
    /\ fbOp = "init"
    /\ fbRet = [kind |-> "none"]

SimulatorIds == {"sim1", "sim2"}
NoSimulator == [constructed |-> FALSE]
NoGenerator == [state |-> "none"]

\* No DriftSimulator constructed, module random not drawn from
ChaosIdle ==
    /\ rng_state = 0
    /\ simulators = [s \in SimulatorIds |-> NoSimulator]
    /\ generators = [s \in SimulatorIds |-> NoGenerator]
    /\ chaos_ret = [kind |-> "none"]

\* No comparison run, nothing logged by the harness
HarnessIdle ==
    /\ comparison = [state |-> "none"]
    /\ logged = 0

\* A HumanInTheLoopOrchestrator just constructed
HitlIdle ==
    /\ pending_approvals = <<>>
    /\ submitted = 0

Init ==
    /\ log_exists \in BOOLEAN
    /\ log = <<>>
    /\ current_hash = GENESIS
    /\ transaction_count = 0
    /\ lastOp = "init"
    /\ ret = <<>>
    /\ tamper = NoTamper
    /\ pc = [t \in Threads |-> "idle"]
    /\ local = [t \in Threads |-> <<>>]
    /\ learned_mappings = <<>>
    /\ resolution_method_used = "None"
    /\ learned_mapping_hits = 0
    /\ bert_fallback_count = 0
    /\ encode_calls = <<>>
    /\ call = <<>>
    /\ resolved = <<>>
    /\ FeedbackIdle
    /\ ChaosIdle
    /\ HarnessIdle
    /\ HitlIdle

----------------------------------------------------------------------------
(* Sequential use of one ledger handle *)

\* with open(self.log_file, "a") as f: f.write(json.dumps(transaction) + "\n")
AppendLine(lines, tx) == Append(lines, tx)

\* log_transaction(original, mapped, confidence, metadata), run to completion.
LogTransaction ==
    /\ Len(log) < MaxTx
    /\ \A t \in Threads : pc[t] = "idle"
    /\ \E original \in OriginalFields, mapped \in MappedFields,
          confidence \in Confidences, metadata \in MetadataArgs, now \in Timestamps :
          LET tx == WithHash(NewTransaction(transaction_count, now, original, mapped,
                                            confidence, metadata, current_hash))
          IN  /\ log' = AppendLine(log, tx)
              /\ log_exists' = TRUE
              /\ current_hash' = AdvanceChainHead(current_hash, tx)
              /\ transaction_count' = IncrementCount(transaction_count)
              /\ lastOp' = "log_transaction"
              /\ ret' = tx
    /\ UNCHANGED <<tamper, threadVars, translatorVars, feedbackVars, chaosVars, harnessVars, hitlVars>>

\* A verifier that adopts the head it walked to and the number of lines it read.
VerifyChainIntegrityResyncing ==
    /\ \A t \in Threads : pc[t] = "idle"
    /\ ret' = VerifyResult(log_exists, log, transaction_count)
    /\ lastOp' = "verify_chain_integrity"
    /\ current_hash' = GENESIS
    /\ transaction_count' = Len(log) + 1
    /\ UNCHANGED <<log_exists, log, tamper, threadVars, translatorVars, feedbackVars, chaosVars, harnessVars, hitlVars>>

\* verify_chain_integrity()
VerifyChainIntegrity ==
    /\ \A t \in Threads : pc[t] = "idle"
    /\ ret' = VerifyResult(log_exists, log, transaction_count)
    /\ lastOp' = "verify_chain_integrity"
    /\ UNCHANGED <<log_exists, log, current_hash, transaction_count, tamper,
                   threadVars, translatorVars, feedbackVars, chaosVars, harnessVars, hitlVars>>

Next ==
    \/ LogTransaction
    \/ VerifyChainIntegrity

Spec == Init /\ [][Next]_vars

----------------------------------------------------------------------------
(* One record of the log file edited in place, no hash recomputed *)

ForgedMappedFields == MappedFields \cup {"speeb"}
ForgedMetadata == {"{}", "adapter", "forged"}

\* The stored record with one of its fields replaced.
Edited(tx, key, value) == [tx EXCEPT ![key] = value]

EditLog(k, key, value) ==
    /\ tamper = NoTamper
    /\ \A t \in Threads : pc[t] = "idle"
    /\ log' = [log EXCEPT ![k] = Edited(log[k], key, value)]
    /\ tamper' = [kind |-> key, at |-> k]
    /\ lastOp' = "edit"
    /\ ret' = <<>>
    /\ UNCHANGED <<log_exists, current_hash, transaction_count, threadVars, translatorVars, feedbackVars, chaosVars, harnessVars, hitlVars>>

TamperMappedField ==
    \E k \in 1..Len(log) : \E value \in ForgedMappedFields \ {log[k].mapped_field} :
        EditLog(k, "mapped_field", value)

TamperMetadata ==
    \E k \in 1..Len(log) : \E value \in ForgedMetadata \ {log[k].metadata} :
        EditLog(k, "metadata", value)

TamperPreviousHash ==
    \E k \in 1..Len(log) :
        \E value \in ({GENESIS} \cup {log[j].transaction_hash : j \in 1..Len(log)})
                     \ {log[k].previous_hash} :
            EditLog(k, "previous_hash", value)

NextTamper ==
    \/ LogTransaction
    \/ VerifyChainIntegrity
    \/ TamperMappedField
    \/ TamperMetadata
    \/ TamperPreviousHash

SpecTamper == Init /\ [][NextTamper]_vars

----------------------------------------------------------------------------
(* Two callers inside log_transaction on the same handle.  The method takes no lock, *)
(* so its reads and writes of the handle and of the file interleave.                 *)

Active == {t \in Threads : pc[t] # "idle"}

\* "transaction_id": self.transaction_count
ReadCount(t) ==
    /\ pc[t] = "idle"
    /\ Len(log) + Cardinality(Active) < MaxTx
    /\ \E original \in OriginalFields, mapped \in MappedFields,
          confidence \in Confidences, metadata \in MetadataArgs :
          local' = [local EXCEPT ![t] =
                        [original |-> original, mapped |-> mapped,
                         confidence |-> confidence, metadata |-> metadata,
                         transaction_id |-> transaction_count]]
    /\ pc' = [pc EXCEPT ![t] = "read_head"]
    /\ UNCHANGED <<ledgerVars, translatorVars, feedbackVars, chaosVars, harnessVars, hitlVars>>

\* "timestamp": utcnow(), "previous_hash": self.current_hash, then the hash of the dict
ReadHead(t) ==
    /\ pc[t] = "read_head"
    /\ \E now \in Timestamps :
          local' = [local EXCEPT ![t] =
                        [tx |-> WithHash(NewTransaction(local[t].transaction_id, now,
                                   local[t].original, local[t].mapped, local[t].confidence,
                                   local[t].metadata, current_hash))]]
    /\ pc' = [pc EXCEPT ![t] = "append"]
    /\ UNCHANGED <<ledgerVars, translatorVars, feedbackVars, chaosVars, harnessVars, hitlVars>>

\* f.write(json.dumps(transaction) + "\n")
AppendToLog(t) ==
    /\ pc[t] = "append"
    /\ log' = AppendLine(log, local[t].tx)
    /\ log_exists' = TRUE
    /\ pc' = [pc EXCEPT ![t] = "set_head"]
    /\ UNCHANGED <<current_hash, transaction_count, lastOp, ret, tamper, local,
                   translatorVars, feedbackVars, chaosVars, harnessVars, hitlVars>>

\* self.current_hash = transaction_hash
SetHead(t) ==
    /\ pc[t] = "set_head"
    /\ current_hash' = AdvanceChainHead(current_hash, local[t].tx)
    /\ pc' = [pc EXCEPT ![t] = "load_count"]
    /\ UNCHANGED <<log_exists, log, transaction_count, lastOp, ret, tamper, local,
                   translatorVars, feedbackVars, chaosVars, harnessVars, hitlVars>>

\* self.transaction_count += 1, the load
LoadCount(t) ==
    /\ pc[t] = "load_count"
    /\ local' = [local EXCEPT ![t] = [tx |-> local[t].tx, loaded |-> transaction_count]]
    /\ pc' = [pc EXCEPT ![t] = "store_count"]
    /\ UNCHANGED <<ledgerVars, translatorVars, feedbackVars, chaosVars, harnessVars, hitlVars>>

\* self.transaction_count += 1, the store; return transaction
StoreCount(t) ==
    /\ pc[t] = "store_count"
    /\ transaction_count' = IncrementCount(local[t].loaded)
    /\ lastOp' = "log_transaction"
    /\ ret' = local[t].tx
    /\ local' = [local EXCEPT ![t] = <<>>]
    /\ pc' = [pc EXCEPT ![t] = "idle"]
    /\ UNCHANGED <<log_exists, log, current_hash, tamper, translatorVars, feedbackVars, chaosVars, harnessVars, hitlVars>>

NextConc ==
    \/ \E t \in Threads : ReadCount(t)
    \/ \E t \in Threads : ReadHead(t)
    \/ \E t \in Threads : AppendToLog(t)
    \/ \E t \in Threads : SetHead(t)
    \/ \E t \in Threads : LoadCount(t)
    \/ \E t \in Threads : StoreCount(t)
    \/ VerifyChainIntegrity

SpecConc == Init /\ [][NextConc]_vars

----------------------------------------------------------------------------
(* EnhancedSemanticTranslator.resolve over SemanticTranslator.resolve *)

MaxResolves == 1

FuzzyCutoff == 70
DefaultThreshold == 45
ExactConfidence == 100

StandardSchema == <<"speed", "temperature">>
LearnedKeys == {"spd", "tmp"}
MessyFields == {"tmp", "velocity"}
Thresholds == {DefaultThreshold, 60}
\* cosine similarities the embedding model can report, in hundredths:
\* against the learned keys, and against the standard schema
FuzzyScores == {45, 70, 71}
SchemaScores == {-5, 45, 71}

\* The dicts the constructor can be handed: insertion-ordered, keys distinct.
LearnedMappingDicts ==
    {m \in UNION {[1..n -> [key : LearnedKeys, value : {StandardSchema[i] : i \in 1..Len(StandardSchema)}]]
                  : n \in 0..Cardinality(LearnedKeys)} :
        \A i, j \in 1..Len(m) : i # j => m[i].key # m[j].key}

\* list(self.learned_mappings.keys())
Keys(mappings) == {mappings[i].key : i \in 1..Len(mappings)}

\* self.learned_mappings[key]
Lookup(mappings, key) ==
    LET i == CHOOSE i \in 1..Len(mappings) : mappings[i].key = key
    IN  mappings[i].value

\* torch.argmax(scores): the first index holding the largest score
ArgMax(scores) ==
    CHOOSE i \in 1..Len(scores) :
        /\ \A j \in 1..Len(scores) : scores[j] <= scores[i]
        /\ \A j \in 1..(i - 1) : scores[j] < scores[i]

\* An exact-match step that never fires.
ExactHitNever(mappings, messy_field) == FALSE

\* if messy_field in self.learned_mappings
ExactHit(mappings, messy_field) == messy_field \in Keys(mappings)

\* A fuzzy step that also accepts the cutoff itself.
FuzzyAcceptsAtCutoff(confidence) == confidence >= FuzzyCutoff

\* if confidence > 0.7
FuzzyAccepts(confidence) == confidence > FuzzyCutoff

\* A fuzzy step whose empty-cache exit returns the pair (None, 0.0) instead of None.
FuzzyMatchReturningPair(mappings, fuzzy_scores) ==
    IF Len(mappings) = 0 THEN <<"None", 0>>
    ELSE LET best_match_idx == ArgMax(fuzzy_scores)
             confidence == fuzzy_scores[best_match_idx]
         IN  IF FuzzyAccepts(confidence)
             THEN <<Lookup(mappings, mappings[best_match_idx].key), confidence>>
             ELSE <<>>

\* _fuzzy_match_learned_mapping: <<>> for None, else (standard_field, confidence)
FuzzyMatchLearnedMapping(mappings, fuzzy_scores) ==
    IF Len(mappings) = 0 THEN <<>>
    ELSE LET best_match_idx == ArgMax(fuzzy_scores)
             confidence == fuzzy_scores[best_match_idx]
         IN  IF FuzzyAccepts(confidence)
             THEN <<Lookup(mappings, mappings[best_match_idx].key), confidence>>
             ELSE <<>>

\* The model.encode calls of _fuzzy_match_learned_mapping
FuzzyEncodes(mappings) ==
    IF Len(mappings) = 0 THEN <<>> ELSE <<"fuzzy:messy_field", "fuzzy:learned_keys">>

\* An oracle step that rejects a score equal to the threshold.
BaseResolveStrict(schema_scores, threshold) ==
    LET best_match_idx == ArgMax(schema_scores)
        confidence == schema_scores[best_match_idx]
    IN  IF confidence > threshold
        THEN <<StandardSchema[best_match_idx], confidence>>
        ELSE <<"None", confidence>>

\* SemanticTranslator.resolve(messy_field, threshold)
BaseResolve(schema_scores, threshold) ==
    LET best_match_idx == ArgMax(schema_scores)
        confidence == schema_scores[best_match_idx]
    IN  IF confidence >= threshold
        THEN <<StandardSchema[best_match_idx], confidence>>
        ELSE <<"None", confidence>>

\* EnhancedSemanticTranslator.resolve: what it returns, the method it records and
\* the embedding-model calls it makes.
ResolveOutcome(mappings, messy_field, threshold, fuzzy_scores, schema_scores) ==
    IF ExactHit(mappings, messy_field)
    THEN [result |-> <<Lookup(mappings, messy_field), ExactConfidence>>,
          method |-> "learned_exact", encodes |-> <<>>]
    ELSE LET learned_result == FuzzyMatchLearnedMapping(mappings, fuzzy_scores)
         IN  IF learned_result # <<>>
             THEN [result |-> learned_result, method |-> "learned_fuzzy",
                   encodes |-> FuzzyEncodes(mappings)]
             ELSE [result |-> BaseResolve(schema_scores, threshold),
                   method |-> "bert_semantic",
                   encodes |-> FuzzyEncodes(mappings) \o <<"bert:messy_field">>]

InitResolve ==
    /\ log_exists = FALSE
    /\ log = <<>>
    /\ current_hash = GENESIS
    /\ transaction_count = 0
    /\ lastOp = "init"
    /\ ret = <<>>
    /\ tamper = NoTamper
    /\ pc = [t \in Threads |-> "idle"]
    /\ local = [t \in Threads |-> <<>>]
    /\ learned_mappings \in LearnedMappingDicts
    /\ resolution_method_used = "None"
    /\ learned_mapping_hits = 0
    /\ bert_fallback_count = 0
    /\ encode_calls = <<>>
    /\ call = <<>>
    /\ resolved = <<>>
    /\ FeedbackIdle
    /\ ChaosIdle
    /\ HarnessIdle
    /\ HitlIdle

\* resolve(messy_field, threshold), the oracle answering with the scores drawn here
Resolve ==
    /\ learned_mapping_hits + bert_fallback_count < MaxResolves
    /\ \E messy_field \in MessyFields, threshold \in Thresholds,
          fuzzy_scores \in [1..Len(learned_mappings) -> FuzzyScores],
          schema_scores \in [1..Len(StandardSchema) -> SchemaScores] :
          LET out == ResolveOutcome(learned_mappings, messy_field, threshold,
                                    fuzzy_scores, schema_scores)
          IN  /\ resolved' = out.result
              /\ resolution_method_used' = out.method
              /\ encode_calls' = out.encodes
              /\ learned_mapping_hits' =
                     IF out.method = "bert_semantic" THEN learned_mapping_hits
                     ELSE learned_mapping_hits + 1
              /\ bert_fallback_count' =
                     IF out.method = "bert_semantic" THEN bert_fallback_count + 1
                     ELSE bert_fallback_count
              /\ call' = [messy_field |-> messy_field, threshold |-> threshold,
                          fuzzy_scores |-> fuzzy_scores, schema_scores |-> schema_scores,
                          learned_mappings |-> learned_mappings]
    /\ UNCHANGED <<learned_mappings, ledgerVars, threadVars, feedbackVars, chaosVars, harnessVars, hitlVars>>

NextResolve == Resolve

SpecResolve == InitResolve /\ [][NextResolve]_vars

----------------------------------------------------------------------------
(* Properties of the ledger *)

\* Record k of a chain links to record k-1, the first one to the genesis sentinel.
Linked(transactions, k) ==
    transactions[k].previous_hash =
        IF k = 1 THEN GENESIS ELSE transactions[k - 1].transaction_hash

\* Record k carries the digest of its own identity fields.
SelfHashed(transactions, k) ==
    transactions[k].transaction_hash =
        _hash_payload([transaction_id |-> transactions[k].transaction_id,
                       timestamp      |-> transactions[k].timestamp,
                       original_field |-> transactions[k].original_field,
                       original_hash  |-> transactions[k].original_hash,
                       mapped_field   |-> transactions[k].mapped_field,
                       mapped_hash    |-> transactions[k].mapped_hash,
                       confidence     |-> transactions[k].confidence])

\* The positions (1-based) of the records a walk from genesis would reject.
Mismatches(transactions) ==
    {k \in 1..Len(transactions) : ~Linked(transactions, k) \/ ~SelfHashed(transactions, k)}

\* The first record at which the walk finds a mismatch.
FirstMismatch(transactions) ==
    CHOOSE k \in Mismatches(transactions) : \A j \in Mismatches(transactions) : k <= j

Verified == lastOp = "verify_chain_integrity"

\* C1: after any sequence of log_transaction calls on one ledger that started from an
\* empty log, every record's previous_hash is the transaction_hash of the record
\* before it, and the first record's previous_hash is "genesis".
C1_ChainInvariant ==
    \A n \in 1..Len(log) : Linked(log, n)

C1_Witness ==
    /\ Len(log) >= 2
    /\ lastOp = "log_transaction"
    /\ log[2].previous_hash = log[1].transaction_hash

\* C2 as stated: for every n >= 0, verifying after n untampered appends returns
\* is_valid = true with total_transactions = n and chain_verified_up_to = n.
C2_Original ==
    Verified =>
        /\ ret[1] = TRUE
        /\ "total_transactions" \in DOMAIN ret[2]
        /\ "chain_verified_up_to" \in DOMAIN ret[2]
        /\ ret[2].total_transactions = Len(log)
        /\ ret[2].chain_verified_up_to = ret[2].total_transactions

\* C2 amended: for every n >= 1 (and for n = 0 when the log file exists), verifying
\* after n untampered appends returns is_valid = true with total_transactions = n and
\* chain_verified_up_to = n; for n = 0 with no log file the report is
\* {message, valid} and has neither total_transactions nor chain_verified_up_to.
C2_VerifyAfterAppends ==
    Verified =>
        /\ ret[1] = TRUE
        /\ log_exists =>
              /\ ret[2].total_transactions = Len(log)
              /\ ret[2].chain_verified_up_to = ret[2].total_transactions
              /\ ret[2].total_transactions = transaction_count
        /\ Len(log) >= 1 => log_exists
        /\ ~log_exists => DOMAIN ret[2] = {"message", "valid"}

C2_Witness ==
    /\ Verified
    /\ Len(log) = 2
    /\ ret[2].chain_verified_up_to = 2

\* C3: in a chain of n >= 1 records that was valid, changing the mapped_field of any
\* single record, no hash recomputed, makes verify_chain_integrity return
\* is_valid = false.
C3_TamperDetected ==
    (Verified /\ tamper.kind = "mapped_field") =>
        /\ ret[1] = FALSE
        /\ ret[2].valid = FALSE

C3_Witness ==
    /\ Verified
    /\ tamper = [kind |-> "mapped_field", at |-> 2]
    /\ Len(log) = 2
    /\ ret[1] = FALSE

C5_Original ==
    (Verified /\ log = <<>>) =>
        /\ ret[1] = TRUE
        /\ "total_transactions" \in DOMAIN ret[2]
        /\ ret[2].total_transactions = 0

\* C5 amended: on an existing empty log the verifier returns is_valid = true with
\* total_transactions = 0; on a missing log file it returns is_valid = true with the
\* report {message: "No log file found", valid: true}, which has no
\* total_transactions; neither case raises.
C5_EmptySafety ==
    (Verified /\ log = <<>>) =>
        /\ ret[1] = TRUE
        /\ ret[2].valid = TRUE
        /\ log_exists => ret[2].total_transactions = 0
        /\ ~log_exists => /\ DOMAIN ret[2] = {"message", "valid"}
                          /\ ret[2].message = "No log file found"

C5_Witness ==
    /\ Verified
    /\ log = <<>>
    /\ ~log_exists
    /\ ret[1] = TRUE

\* C6: verify_chain_integrity leaves the log contents, current_hash and
\* transaction_count unchanged, and run again with no append in between it returns
\* the same result.
C6_VerifyReadOnly ==
    [][lastOp' = "verify_chain_integrity" =>
          /\ log' = log
          /\ log_exists' = log_exists
          /\ current_hash' = current_hash
          /\ transaction_count' = transaction_count
          /\ Verified => ret' = ret]_vars

C6_Witness ==
    /\ Verified
    /\ Len(log) >= 1
    /\ current_hash = log[Len(log)].transaction_hash
    /\ ret[2].total_transactions = Len(log)

C7_Original ==
    /\ \A i, j \in 1..Len(log) :
           i # j => log[i].previous_hash # log[j].previous_hash
    /\ (Active = {} /\ Verified) => ret[1] = TRUE

----------------------------------------------------------------------------
(* Properties of the resolution policy *)

\* The largest of the scores the oracle gives the learned keys.
BestFuzzyScore(scores) ==
    CHOOSE b \in {scores[i] : i \in 1..Len(scores)} :
        \A i \in 1..Len(scores) : scores[i] <= b

\* C9: whenever the input is a key of the learned-mapping cache, resolve returns
\* (mapping[input], 1.0) with method learned_exact, for every oracle score and every
\* threshold, and makes no call to the embedding model (neither the fuzzy step nor
\* the schema oracle runs).
C9_ExactLearnedWins ==
    (call # <<>> /\ call.messy_field \in Keys(call.learned_mappings)) =>
        /\ \E i \in 1..Len(call.learned_mappings) :
               /\ call.learned_mappings[i].key = call.messy_field
               /\ resolved = <<call.learned_mappings[i].value, 100>>
        /\ resolution_method_used = "learned_exact"
        /\ encode_calls = <<>>

C9_Witness ==
    /\ call # <<>>
    /\ call.messy_field = "tmp"
    /\ Len(call.learned_mappings) = 2
    /\ call.learned_mappings[2] = [key |-> "tmp", value |-> "temperature"]
    /\ call.fuzzy_scores = <<71, 71>>
    /\ call.schema_scores = <<71, -5>>
    /\ call.threshold = 60
    /\ resolved = <<"temperature", 100>>

\* C10: when the input is not an exact key and the cache is non-empty, resolve returns
\* (mapping[best_key], score) with method learned_fuzzy if and only if the best
\* similarity over the learned keys is strictly greater than 0.70; then the schema
\* oracle is not used, and a best score of 0.70 or less falls through to the oracle.
C10_FuzzyLearnedMatch ==
    (/\ call # <<>>
     /\ call.messy_field \notin Keys(call.learned_mappings)
     /\ Len(call.learned_mappings) > 0) =>
        LET best == BestFuzzyScore(call.fuzzy_scores)
        IN  /\ (resolution_method_used = "learned_fuzzy") <=> (best > 70)
            /\ best > 70 =>
                  /\ \E i \in 1..Len(call.learned_mappings) :
                         /\ call.fuzzy_scores[i] = best
                         /\ resolved = <<call.learned_mappings[i].value, best>>
                  /\ \A n \in 1..Len(encode_calls) : encode_calls[n] # "bert:messy_field"
            /\ best <= 70 =>
                  /\ resolution_method_used = "bert_semantic"
                  /\ encode_calls[Len(encode_calls)] = "bert:messy_field"

C10_Witness ==
    /\ call # <<>>
    /\ call.messy_field = "velocity"
    /\ call.fuzzy_scores = <<70, 45>>
    /\ resolution_method_used = "bert_semantic"

C10_WitnessAccepted ==
    /\ call # <<>>
    /\ call.messy_field = "velocity"
    /\ call.fuzzy_scores = <<45, 71>>
    /\ resolution_method_used = "learned_fuzzy"
    /\ resolved[2] = 71

\* The largest of the scores the oracle gives the standard schema.
BestSchemaScore(scores) ==
    CHOOSE b \in {scores[i] : i \in 1..Len(scores)} :
        \A i \in 1..Len(scores) : scores[i] <= b

\* C11: when steps 1 and 2 do not succeed, resolve returns (best_match, score) if
\* the oracle score is >= threshold (the boundary value accepted) and (None, score)
\* otherwise; a miss is a returned value.
C11_OracleGating ==
    (call # <<>> /\ resolution_method_used = "bert_semantic") =>
        LET score == BestSchemaScore(call.schema_scores)
        IN  /\ resolved[2] = score
            /\ score >= call.threshold =>
                  \E i \in 1..Len(StandardSchema) :
                      /\ call.schema_scores[i] = score
                      /\ resolved[1] = StandardSchema[i]
            /\ score < call.threshold => resolved[1] = "None"

C11_Witness ==
    /\ call # <<>>
    /\ resolution_method_used = "bert_semantic"
    /\ call.threshold = 45
    /\ call.schema_scores = <<-5, 45>>
    /\ resolved = <<"temperature", 45>>

C11_WitnessMiss ==
    /\ call # <<>>
    /\ resolution_method_used = "bert_semantic"
    /\ call.threshold = 60
    /\ call.schema_scores = <<45, -5>>
    /\ resolved = <<"None", 45>>

\* C12 as stated: for every resolution outcome of resolve, 0.0 <= confidence <= 1.0,
\* and learned_exact outcomes have confidence exactly 1.0.
C12_Original ==
    call # <<>> =>
        /\ 0 <= resolved[2]
        /\ resolved[2] <= 100
        /\ resolution_method_used = "learned_exact" => resolved[2] = 100

\* C13: with an empty learned-mapping cache resolve returns exactly the
\* (match, confidence) of the base oracle resolve for the same input and threshold,
\* steps 1 and 2 making no call to the embedding model.
C13_EmptyCacheIsBase ==
    (call # <<>> /\ Len(call.learned_mappings) = 0) =>
        /\ resolved = BaseResolve(call.schema_scores, call.threshold)
        /\ resolution_method_used = "bert_semantic"
        /\ encode_calls = <<"bert:messy_field">>

C13_Witness ==
    /\ call # <<>>
    /\ Len(call.learned_mappings) = 0
    /\ call.messy_field = "velocity"
    /\ call.schema_scores = <<71, 45>>
    /\ resolved = <<"speed", 71>>


-----------------------------------------------------------------------------
(* FeedbackManager: the human feedback store (src/modules/feedback_manager.py).
   feedback_file holds one JSON object per line; a record written by
   record_feedback holds strings, None, a float and a bool, which json.dumps and
   json.loads carry unchanged, so a line is modelled by the record it encodes.
   Ratios are percentages and compared by cross-multiplication. *)

MaxFeedback == 3

RawFields == {"hr_watch_01", "spd"}
SuggestedMatches == {"Heart Rate (bpm)"}
HumanCorrections == {"None", "", "Pulse (bpm)"}
ValidFeedbackTypes == {"approved", "corrected", "rejected"}
FeedbackTypeArgs == ValidFeedbackTypes \cup {"ignored"}
FeedbackNow == {"t0"}
AgreementRatios == {50, 60, 80}

\* feedback_record = {...}
FeedbackRecord(now, raw_field, suggested_match, human_correction, feedback_type) ==
    [ timestamp        |-> now,
      raw_field        |-> raw_field,
      suggested_match  |-> suggested_match,
      human_correction |-> human_correction,
      feedback_type    |-> feedback_type,
      confidence_score |-> 90,
      source_name      |-> "None",
      session_id       |-> "None",
      is_correction    |-> human_correction # "None" /\ human_correction # suggested_match ]

PrependToCache(cache, record) == <<record>> \o cache

\* self.feedback_cache.append(feedback_record)
AppendToCache(cache, record) == Append(cache, record)

\* with open(self.feedback_file, 'a') as f: f.write(json.dumps(record) + '\n')
AppendToFile(lines, record) == Append(lines, record)

\* feedback.get('human_correction') or feedback['suggested_match']: None and the
\* empty string are both falsy
StandardFieldOf(feedback) ==
    IF feedback.human_correction \notin {"None", ""}
    THEN feedback.human_correction
    ELSE feedback.suggested_match

\* if feedback['feedback_type'] in ['approved', 'corrected']
Tallied(feedback) == feedback.feedback_type \in {"approved", "corrected"}

\* field_feedback, as the keys in the order the dict first saw them
RECURSIVE FieldsInOrder(_, _)
FieldsInOrder(cache, i) ==
    IF i = 0 THEN <<>>
    ELSE LET before == FieldsInOrder(cache, i - 1)
         IN  IF \E j \in 1..Len(before) : before[j] = cache[i].raw_field
             THEN before
             ELSE Append(before, cache[i].raw_field)

\* field_feedback[raw_field]
FeedbackList(cache, raw_field) == SelectSeq(cache, LAMBDA fb : fb.raw_field = raw_field)

\* corrections[standard_field] = corrections.get(standard_field, 0) + 1
Tally(corrections, standard_field) ==
    IF \E j \in 1..Len(corrections) : corrections[j].key = standard_field
    THEN [j \in 1..Len(corrections) |->
            IF corrections[j].key = standard_field
            THEN [corrections[j] EXCEPT !.count = @ + 1]
            ELSE corrections[j]]
    ELSE Append(corrections, [key |-> standard_field, count |-> 1])

\* the loop over feedback_list that fills corrections
RECURSIVE Corrections(_, _)
Corrections(feedback_list, i) ==
    IF i = 0 THEN <<>>
    ELSE IF Tallied(feedback_list[i])
         THEN Tally(Corrections(feedback_list, i - 1), StandardFieldOf(feedback_list[i]))
         ELSE Corrections(feedback_list, i - 1)

\* max(corrections.items(), key=lambda x: x[1]): the first item with the largest count
BestMatch(corrections) ==
    LET best == CHOOSE j \in 1..Len(corrections) :
                    /\ \A k \in 1..Len(corrections) : corrections[k].count <= corrections[j].count
                    /\ \A k \in 1..(j - 1) : corrections[k].count < corrections[j].count
    IN  corrections[best]

TotalTallied(feedback_list) == Len(SelectSeq(feedback_list, Tallied))

\* total_feedback = len(feedback_list)
TotalFeedback(feedback_list) == Len(feedback_list)

\* a comparison with one half whatever min_agreement_ratio is
AgreementReachedAtHalf(count, total_feedback, min_agreement_ratio) ==
    count * 100 >= 50 * total_feedback

\* agreement_ratio = best_match[1] / total_feedback; agreement_ratio >= min_agreement_ratio
AgreementReached(count, total_feedback, min_agreement_ratio) ==
    count * 100 >= min_agreement_ratio * total_feedback

\* get_learned_mappings(min_agreement_ratio): the dict as its items in insertion order
RECURSIVE LearnedFrom(_, _, _, _)
LearnedFrom(cache, fields, i, min_agreement_ratio) ==
    IF i = 0 THEN <<>>
    ELSE LET learned       == LearnedFrom(cache, fields, i - 1, min_agreement_ratio)
             feedback_list == FeedbackList(cache, fields[i])
             corrections   == Corrections(feedback_list, Len(feedback_list))
         IN  IF Len(corrections) = 0 THEN learned
             ELSE IF AgreementReached(BestMatch(corrections).count,
                                      TotalFeedback(feedback_list), min_agreement_ratio)
                  THEN Append(learned, [key |-> fields[i], value |-> BestMatch(corrections).key])
                  ELSE learned

GetLearnedMappingsOf(cache, min_agreement_ratio) ==
    LET fields == FieldsInOrder(cache, Len(cache))
    IN  LearnedFrom(cache, fields, Len(fields), min_agreement_ratio)

\* record_feedback(raw_field, suggested_match, human_correction, feedback_type)
RecordFeedback ==
    /\ Len(feedback_file) < MaxFeedback
    /\ \E now \in FeedbackNow, raw_field \in RawFields, suggested_match \in SuggestedMatches,
          human_correction \in HumanCorrections, feedback_type \in FeedbackTypeArgs :
          IF feedback_type \notin ValidFeedbackTypes
          THEN /\ fbRet' = [kind |-> "raise", value |-> "ValueError"]
               /\ UNCHANGED <<feedback_file, feedback_cache>>
          ELSE LET record == FeedbackRecord(now, raw_field, suggested_match,
                                            human_correction, feedback_type)
               IN  /\ feedback_file' = AppendToFile(feedback_file, record)
                   /\ feedback_cache' = AppendToCache(feedback_cache, record)
                   /\ fbRet' = [kind |-> "record", value |-> record]
    /\ fbOp' = "record_feedback"
    /\ UNCHANGED <<ledgerVars, threadVars, translatorVars, chaosVars, harnessVars, hitlVars>>

\* get_learned_mappings(min_agreement_ratio)
GetLearnedMappings ==
    /\ \E min_agreement_ratio \in AgreementRatios :
          fbRet' = [kind |-> "mappings", ratio |-> min_agreement_ratio,
                    value |-> GetLearnedMappingsOf(feedback_cache, min_agreement_ratio)]
    /\ fbOp' = "get_learned_mappings"
    /\ UNCHANGED <<feedback_file, feedback_cache, ledgerVars, threadVars, translatorVars, chaosVars, harnessVars, hitlVars>>

\* clear_feedback()
ClearFeedback ==
    /\ feedback_cache' = <<>>
    /\ feedback_file' = <<>>
    /\ fbOp' = "clear_feedback"
    /\ fbRet' = [kind |-> "none"]
    /\ UNCHANGED <<ledgerVars, threadVars, translatorVars, chaosVars, harnessVars, hitlVars>>

\* line.strip() is empty
IsBlank(line) == Unparsable(line) /\ line.unparsable = ""

\* a line that is not blank and that json.loads rejects
Malformed(line) == Unparsable(line) /\ line.unparsable # ""

\* the lines _load_feedback hands to json.loads
NonBlankLines(lines) == SelectSeq(lines, LAMBDA line : ~IsBlank(line))

\* FeedbackManager(feedback_file): a new manager over the same file, _load_feedback;
\* when the constructor raises, the manager in use stays as it was
LoadFeedback ==
    /\ IF \E k \in 1..Len(feedback_file) : Malformed(feedback_file[k])
       THEN /\ fbRet' = [kind |-> "raise", value |-> "JSONDecodeError"]
            /\ UNCHANGED feedback_cache
       ELSE /\ feedback_cache' = NonBlankLines(feedback_file)
            /\ fbRet' = [kind |-> "none"]
    /\ fbOp' = "load_feedback"
    /\ UNCHANGED <<feedback_file, ledgerVars, threadVars, translatorVars, chaosVars, harnessVars, hitlVars>>

NextFeedback ==
    \/ RecordFeedback
    \/ GetLearnedMappings
    \/ ClearFeedback
    \/ LoadFeedback

\* The ledger never written: no log file
InitFeedback == Init /\ log_exists = FALSE

SpecFeedback == InitFeedback /\ [][NextFeedback]_vars


-----------------------------------------------------------------------------
(* Properties of the feedback store *)

FeedbackValues == SuggestedMatches \cup (HumanCorrections \ {"None", ""})

\* The positions of the Approved/Corrected records of raw_field that name value
VotesFor(cache, raw_field, value) ==
    {i \in 1..Len(cache) : /\ cache[i].raw_field = raw_field
                           /\ cache[i].feedback_type \in {"approved", "corrected"}
                           /\ value = (IF cache[i].human_correction \in {"None", ""}
                                       THEN cache[i].suggested_match
                                       ELSE cache[i].human_correction)}

CountOf(cache, raw_field, value) == Cardinality(VotesFor(cache, raw_field, value))

AllRecordsOf(cache, raw_field) ==
    Cardinality({i \in 1..Len(cache) : cache[i].raw_field = raw_field})

FirstVoteFor(cache, raw_field, value) ==
    CHOOSE i \in VotesFor(cache, raw_field, value) :
        \A j \in VotesFor(cache, raw_field, value) : i <= j

Maps(mappings, raw_field, value) ==
    \E i \in 1..Len(mappings) : mappings[i] = [key |-> raw_field, value |-> value]

MostFrequent(cache, raw_field, value) ==
    /\ CountOf(cache, raw_field, value) > 0
    /\ \A other \in FeedbackValues :
          CountOf(cache, raw_field, other) <= CountOf(cache, raw_field, value)

StrictlyMostFrequent(cache, raw_field, value) ==
    /\ CountOf(cache, raw_field, value) > 0
    /\ \A other \in FeedbackValues \ {value} :
          CountOf(cache, raw_field, other) < CountOf(cache, raw_field, value)

\* Most frequent, a tie going to the value that was voted for first
MostFrequentFirst(cache, raw_field, value) ==
    /\ MostFrequent(cache, raw_field, value)
    /\ \A other \in FeedbackValues \ {value} :
          CountOf(cache, raw_field, other) = CountOf(cache, raw_field, value)
              => FirstVoteFor(cache, raw_field, value) < FirstVoteFor(cache, raw_field, other)

ShareReached(cache, raw_field, value, ratio) ==
    CountOf(cache, raw_field, value) * 100 >= ratio * AllRecordsOf(cache, raw_field)

\* 8 Approved for "Heart Rate (bpm)" and 2 Corrected to "Pulse (bpm)"
ExampleFeedback ==
    [i \in 1..10 |->
        IF i <= 8
        THEN FeedbackRecord("t0", "hr_watch_01", "Heart Rate (bpm)", "None", "approved")
        ELSE FeedbackRecord("t0", "hr_watch_01", "Heart Rate (bpm)", "Pulse (bpm)", "corrected")]

\* C14 as stated: get_learned_mappings(r) maps raw_field to v if and only if v is
\* the most frequent value among the field's Approved/Corrected records and its
\* share of all the field's records is at least r; "the most frequent" read either
\* as "no value is more frequent" or as "every other value is less frequent".
C14_Original ==
    (fbOp = "get_learned_mappings" /\ fbRet.kind = "mappings") =>
        \/ \A raw_field \in RawFields, value \in FeedbackValues :
              Maps(fbRet.value, raw_field, value) <=>
                  /\ MostFrequent(feedback_cache, raw_field, value)
                  /\ ShareReached(feedback_cache, raw_field, value, fbRet.ratio)
        \/ \A raw_field \in RawFields, value \in FeedbackValues :
              Maps(fbRet.value, raw_field, value) <=>
                  /\ StrictlyMostFrequent(feedback_cache, raw_field, value)
                  /\ ShareReached(feedback_cache, raw_field, value, fbRet.ratio)

\* C14: get_learned_mappings(r) maps raw_field to v if and only if v is the most
\* frequent value among the field's Approved/Corrected records, a tie going to the
\* tied value that was voted for first, and count(v) over the number of all the
\* field's records (Rejected included) is at least r; a field has at most one entry;
\* 8 Approved for "Heart Rate (bpm)" and 2 Corrected to "Pulse (bpm)" give
\* "Heart Rate (bpm)" at r = 0.8.
C14_Consensus ==
    /\ GetLearnedMappingsOf(ExampleFeedback, 80)
           = <<[key |-> "hr_watch_01", value |-> "Heart Rate (bpm)"]>>
    /\ (fbOp = "get_learned_mappings" /\ fbRet.kind = "mappings") =>
          /\ \A raw_field \in RawFields, value \in FeedbackValues :
                Maps(fbRet.value, raw_field, value) <=>
                    /\ MostFrequentFirst(feedback_cache, raw_field, value)
                    /\ ShareReached(feedback_cache, raw_field, value, fbRet.ratio)
          /\ \A i, j \in 1..Len(fbRet.value) :
                fbRet.value[i].key = fbRet.value[j].key => i = j

\* An accepted value that shares the first place with another one
C14_Witness ==
    /\ fbOp = "get_learned_mappings"
    /\ fbRet.kind = "mappings"
    /\ fbRet.ratio = 50
    /\ Maps(fbRet.value, "hr_watch_01", "Pulse (bpm)")
    /\ CountOf(feedback_cache, "hr_watch_01", "Heart Rate (bpm)") = 1
    /\ CountOf(feedback_cache, "hr_watch_01", "Pulse (bpm)") = 1

IsPrefix(s, t) == Len(s) <= Len(t) /\ SubSeq(t, 1, Len(s)) = s

\* C15: a successful record_feedback adds exactly the record it returns at the end
\* of the cache and of the file, clear_feedback empties both, and no other
\* operation modifies or removes a record that is already stored.
C15_AppendOnly ==
    [][ /\ (fbOp' = "record_feedback" /\ fbRet'.kind = "record") =>
              /\ feedback_cache' = Append(feedback_cache, fbRet'.value)
              /\ feedback_file' = Append(feedback_file, fbRet'.value)
        /\ fbOp' = "clear_feedback" =>
              /\ feedback_cache' = <<>>
              /\ feedback_file' = <<>>
        /\ fbOp' # "clear_feedback" =>
              /\ IsPrefix(feedback_cache, feedback_cache')
              /\ IsPrefix(feedback_file, feedback_file') ]_vars

\* A record appended behind two earlier ones
C15_Witness ==
    /\ fbOp = "record_feedback"
    /\ fbRet.kind = "record"
    /\ Len(feedback_cache) = 3
    /\ feedback_cache[3] = fbRet.value
    /\ feedback_cache[1] # fbRet.value
    /\ feedback_file = feedback_cache



\* the orders n records can be stored in
StorageOrders(n) == {p \in [1..n -> 1..n] : \A i, j \in 1..n : p[i] = p[j] => i = j}

PermutationsOf == [n \in 0..MaxFeedback |-> StorageOrders(n)]

\* the records of cache in the order p
Permuted(cache, p) == [i \in 1..Len(cache) |-> cache[p[i]]]

\* a dict as the set of its items
ItemsOf(mapping) == {mapping[i] : i \in 1..Len(mapping)}

\* C29: for min_agreement_ratio > 0.5, get_learned_mappings returns the same
\* mapping for every permutation of the same set of feedback records.
C29_OrderInsensitive ==
    (fbOp = "get_learned_mappings" /\ fbRet.kind = "mappings" /\ fbRet.ratio > 50) =>
        \A p \in PermutationsOf[Len(feedback_cache)] :
            ItemsOf(GetLearnedMappingsOf(Permuted(feedback_cache, p), fbRet.ratio)) = ItemsOf(fbRet.value)

\* Three records of one field in the store, two naming one value and one naming
\* another, and the majority value returned at a ratio of 0.6
C29_Witness ==
    /\ fbOp = "get_learned_mappings"
    /\ fbRet.kind = "mappings"
    /\ fbRet.ratio = 60
    /\ Len(feedback_cache) = 3
    /\ Len(fbRet.value) = 1
    /\ \A i \in 1..3 : Tallied(feedback_cache[i]) /\ feedback_cache[i].raw_field = "spd"
    /\ StandardFieldOf(feedback_cache[1]) # StandardFieldOf(feedback_cache[2])
    /\ StandardFieldOf(feedback_cache[2]) = StandardFieldOf(feedback_cache[3])

-----------------------------------------------------------------------------
(* DriftSimulator: the schema drift simulator (src/tests/chaos_engine.py).
   A field name is the sequence of its characters.  Module random is one
   generator for the whole process: its state is a number, random.seed sets it
   from the seed alone and every draw advances it by one step of a fixed
   permutation, the value of the draw being the new state (over 31 for
   random.random).  Weights are hundredths. *)

MaxSamples == 2

CleanNames ==
    << <<"s", "p", "e", "e", "d">>,
       <<"t", "e", "m", "p", "e", "r", "a", "t", "u", "r", "e">>,
       <<"p", "r", "e", "s", "s", "u", "r", "e">> >>

\* The names the operators are called with directly
DirectNames ==
    { <<>>, <<"h", "r">>, <<"r", "p", "m">>, <<"r", "a", "t", "e">>,
      <<"S", "p", "e", "e", "d">>,
      <<"p", "r", "e", "s", "s", "u", "r", "e">>,
      <<"h", "e", "a", "r", "t", "_", "r", "a", "t", "e">> }

Seeds == {42, 43}
EntropyTypes == <<"synonyms", "noise", "truncation">>
EntropyTypeArgs == {"None", "synonyms", "noise", "truncation"}
DefaultDistribution == [synonyms |-> 40, noise |-> 35, truncation |-> 25]
Distributions == {DefaultDistribution, [synonyms |-> 0, noise |-> 50, truncation |-> 50]}
TargetAccuracies == {0, 50, 85, 100}

SYNONYM_DICT ==
    <<
       [key |-> <<"s", "p", "e", "e", "d">>,
        synonyms |-> <<<<"v", "e", "l", "o", "c", "i", "t", "y">>, <<"r", "a", "t", "e">>, <<"p", "a", "c", "e">>, <<"r", "p", "m">>>>],
       [key |-> <<"h", "e", "a", "r", "t", "_", "r", "a", "t", "e">>,
        synonyms |-> <<<<"h", "r">>, <<"p", "u", "l", "s", "e">>, <<"b", "p", "m">>, <<"c", "a", "r", "d", "i", "a", "c", "_", "r", "a", "t", "e">>>>],
       [key |-> <<"s", "y", "s", "t", "o", "l", "i", "c">>,
        synonyms |-> <<<<"s", "y", "s">>, <<"s", "b", "p">>, <<"u", "p", "p", "e", "r">>>>],
       [key |-> <<"d", "i", "a", "s", "t", "o", "l", "i", "c">>,
        synonyms |-> <<<<"d", "i", "a">>, <<"d", "b", "p">>, <<"l", "o", "w", "e", "r">>>>],
       [key |-> <<"o", "x", "y", "g", "e", "n">>,
        synonyms |-> <<<<"s", "p", "o", "2">>, <<"o", "2", "_", "s", "a", "t">>, <<"s", "p", "0", "2">>>>],
       [key |-> <<"t", "e", "m", "p", "e", "r", "a", "t", "u", "r", "e">>,
        synonyms |-> <<<<"t", "e", "m", "p">>, <<"c", "e", "l", "s", "i", "u", "s">>, <<"d", "e", "g", "r", "e", "e", "s">>>>],
       [key |-> <<"p", "r", "e", "s", "s", "u", "r", "e">>,
        synonyms |-> <<<<"p", "s", "i">>, <<"m", "m", "h", "g">>, <<"b", "a", "r">>>>],
       [key |-> <<"c", "o", "u", "n", "t">>,
        synonyms |-> <<<<"t", "o", "t", "a", "l">>, <<"s", "u", "m">>, <<"q", "u", "a", "n", "t", "i", "t", "y">>>>],
       [key |-> <<"v", "a", "l", "u", "e">>,
        synonyms |-> <<<<"r", "e", "a", "d", "i", "n", "g">>, <<"m", "e", "a", "s", "u", "r", "e", "m", "e", "n", "t">>, <<"d", "a", "t", "a">>>>]
    >>

NOISE_SUFFIXES ==
    << <<"_", "v", "1">>,
       <<"_", "v", "2">>,
       <<"_", "l", "o", "g">>,
       <<"_", "n", "e", "w">>,
       <<"_", "o", "l", "d">>,
       <<"_", "b", "a", "c", "k", "u", "p">>,
       <<"_", "r", "a", "w">>,
       <<"_", "p", "r", "o", "c", "e", "s", "s", "e", "d">> >>

NOISE_PREFIXES ==
    << <<"x", "_">>,
       <<"t", "m", "p", "_">>,
       <<"o", "l", "d", "_">>,
       <<"n", "e", "w", "_">>,
       <<"r", "e", "f", "_">>,
       <<"a", "u", "x", "_">> >>

\* str.lower(), on the capitals the names above use
LowerOf == [c \in {"S", "H", "R"} |-> IF c = "S" THEN "s" ELSE IF c = "H" THEN "h" ELSE "r"]
Lower(name) == [i \in 1..Len(name) |-> IF name[i] \in DOMAIN LowerOf THEN LowerOf[name[i]] ELSE name[i]]

\* a in b, for strings
IsSubstring(a, b) == \E i \in 0..(Len(b) - Len(a)) : SubSeq(b, i + 1, i + Len(a)) = a

\* the loop over SYNONYM_DICT.items(): the synonyms of the first key that matches
SynonymsFor(clean_name) ==
    LET normalized == Lower(clean_name)
        hits == {k \in 1..Len(SYNONYM_DICT) :
                    \/ IsSubstring(SYNONYM_DICT[k].key, normalized)
                    \/ IsSubstring(normalized, SYNONYM_DICT[k].key)}
    IN  IF hits = {} THEN <<>>
        ELSE SYNONYM_DICT[CHOOSE k \in hits : \A other \in hits : k <= other].synonyms

\* inject_synonyms, random.choice falling on the choice-th synonym
InjectSynonymsWith(clean_name, choice) ==
    IF SynonymsFor(clean_name) = <<>> THEN clean_name ELSE SynonymsFor(clean_name)[choice]

\* inject_noise, random.random() < 0.5 being suffixed and random.choice falling on
\* the choice-th suffix or prefix
InjectNoiseWith(clean_name, suffixed, choice) ==
    IF suffixed THEN clean_name \o NOISE_SUFFIXES[choice] ELSE NOISE_PREFIXES[choice] \o clean_name

IsShortBelowThree(clean_name) == Len(clean_name) < 3

\* if len(clean_name) <= 3: return clean_name
IsShort(clean_name) == Len(clean_name) <= 3

\* min(3, len(clean_name) - 2)
MostRemoved(clean_name) == IF Len(clean_name) - 2 < 3 THEN Len(clean_name) - 2 ELSE 3

\* "".join(char for i, char in enumerate(clean_name) if i not in positions), the
\* positions counted from 1
RECURSIVE KeepFrom(_, _, _)
KeepFrom(clean_name, positions, i) ==
    IF i > Len(clean_name) THEN <<>>
    ELSE (IF i \in positions THEN <<>> ELSE <<clean_name[i]>>) \o KeepFrom(clean_name, positions, i + 1)

RemoveAt(clean_name, positions) == KeepFrom(clean_name, positions, 1)

\* inject_truncation, random.sample falling on positions
InjectTruncationWith(clean_name, positions) ==
    IF IsShort(clean_name) THEN clean_name ELSE RemoveAt(clean_name, positions)


\* One step of the generator
Advance(rng) == (rng * 3 + 1) % 31

NotReseeded(rng, seed) == rng

\* random.seed(self.seed)
Reseed(rng, seed) == seed % 31

\* random.choice(seq): the index it falls on, and the generator after it
RandomChoice(rng, n) == [value |-> (Advance(rng) % n) + 1, rng |-> Advance(rng)]

\* random.random() < 0.5
RandomBelowHalf(rng) == [value |-> Advance(rng) * 2 < 31, rng |-> Advance(rng)]

\* random.randint(a, b)
RandInt(rng, a, b) == [value |-> a + (Advance(rng) % (b - a + 1)), rng |-> Advance(rng)]

\* random.sample(range(n), k), pool being the positions not yet taken; sorted() of it
\* is the set of the positions
RECURSIVE SampleFrom(_, _, _)
SampleFrom(rng, pool, k) ==
    IF k = 0 THEN [value |-> {}, rng |-> rng]
    ELSE LET j    == (Advance(rng) % Len(pool)) + 1
             rest == SampleFrom(Advance(rng), SubSeq(pool, 1, j - 1) \o SubSeq(pool, j + 1, Len(pool)), k - 1)
         IN  [value |-> {pool[j]} \cup rest.value, rng |-> rest.rng]

RandomSample(rng, n, k) == SampleFrom(rng, [i \in 1..n |-> i], k)

\* the cumulative weight of the first i entropy types
RECURSIVE CumulativeWeight(_, _)
CumulativeWeight(distribution, i) ==
    IF i = 0 THEN 0 ELSE CumulativeWeight(distribution, i - 1) + distribution[EntropyTypes[i]]

\* random.choices(types, weights=weights, k=1)[0]
RandomChoices(rng, distribution) ==
    LET total == CumulativeWeight(distribution, Len(EntropyTypes))
        hit   == CHOOSE i \in 1..Len(EntropyTypes) :
                     /\ Advance(rng) * total < 31 * CumulativeWeight(distribution, i)
                     /\ \A j \in 1..(i - 1) :
                            Advance(rng) * total >= 31 * CumulativeWeight(distribution, j)
    IN  [value |-> EntropyTypes[hit], rng |-> Advance(rng)]

\* inject_synonyms(clean_name)
InjectSynonyms(clean_name, rng) ==
    IF SynonymsFor(clean_name) = <<>> THEN [value |-> clean_name, rng |-> rng]
    ELSE LET choice == RandomChoice(rng, Len(SynonymsFor(clean_name)))
         IN  [value |-> InjectSynonymsWith(clean_name, choice.value), rng |-> choice.rng]

\* inject_noise(clean_name)
InjectNoise(clean_name, rng) ==
    LET suffixed == RandomBelowHalf(rng)
        choice   == RandomChoice(suffixed.rng,
                                 IF suffixed.value THEN Len(NOISE_SUFFIXES) ELSE Len(NOISE_PREFIXES))
    IN  [value |-> InjectNoiseWith(clean_name, suffixed.value, choice.value), rng |-> choice.rng]

\* inject_truncation(clean_name)
InjectTruncation(clean_name, rng) ==
    IF IsShort(clean_name) THEN [value |-> clean_name, rng |-> rng]
    ELSE LET num_chars_to_remove == RandInt(rng, 1, MostRemoved(clean_name))
             positions == RandomSample(num_chars_to_remove.rng, Len(clean_name),
                                       num_chars_to_remove.value)
         IN  [value |-> InjectTruncationWith(clean_name, positions.value), rng |-> positions.rng]

ApplyNoiseAlways(selected_type, clean_name, rng) == InjectNoise(clean_name, rng)

\* the if/elif/else of stream_chaos that applies the entropy
ApplyEntropy(selected_type, clean_name, rng) ==
    IF selected_type = "synonyms" THEN InjectSynonyms(clean_name, rng)
    ELSE IF selected_type = "noise" THEN InjectNoise(clean_name, rng)
    ELSE InjectTruncation(clean_name, rng)

\* one turn of the loop of stream_chaos
NextSample(simulator, entropy_type, rng) ==
    LET clean    == RandomChoice(rng, Len(simulator.clean_names))
        selected == IF entropy_type = "None"
                    THEN RandomChoices(clean.rng, simulator.entropy_distribution)
                    ELSE [value |-> entropy_type, rng |-> clean.rng]
        applied  == ApplyEntropy(selected.value, simulator.clean_names[clean.value], selected.rng)
    IN  [sample |-> [clean_name     |-> simulator.clean_names[clean.value],
                     corrupted_name |-> applied.value,
                     entropy_type   |-> selected.value],
         rng |-> applied.rng]

\* DriftSimulator(clean_names, seed, entropy_distribution), __post_init__ included
Construct(s) ==
    /\ ~simulators[s].constructed
    /\ \E seed \in Seeds, distribution \in Distributions :
          /\ simulators' = [simulators EXCEPT ![s] =
                               [constructed |-> TRUE, clean_names |-> CleanNames, seed |-> seed,
                                entropy_distribution |-> distribution]]
          /\ rng_state' = Reseed(rng_state, seed)
    /\ UNCHANGED <<generators, chaos_ret, ledgerVars, threadVars, translatorVars, feedbackVars, harnessVars, hitlVars>>

\* stream_chaos(num_samples, entropy_type): the generator object, none of its body run
StreamChaos(s) ==
    /\ simulators[s].constructed
    /\ generators[s] = NoGenerator
    /\ \E num_samples \in 0..MaxSamples, entropy_type \in EntropyTypeArgs :
          generators' = [generators EXCEPT ![s] =
                            [state |-> "suspended", num_samples |-> num_samples,
                             entropy_type |-> entropy_type, yielded |-> <<>>]]
    /\ UNCHANGED <<rng_state, simulators, chaos_ret, ledgerVars, threadVars, translatorVars, feedbackVars, harnessVars, hitlVars>>

\* next() on the generator: one more sample, or StopIteration when range(num_samples)
\* is used up
Pull(s) ==
    /\ generators[s].state = "suspended"
    /\ IF Len(generators[s].yielded) < generators[s].num_samples
       THEN LET next == NextSample(simulators[s], generators[s].entropy_type, rng_state)
            IN  /\ generators' = [generators EXCEPT ![s].yielded = Append(@, next.sample)]
                /\ rng_state' = next.rng
       ELSE /\ generators' = [generators EXCEPT ![s].state = "exhausted"]
            /\ UNCHANGED rng_state
    /\ UNCHANGED <<simulators, chaos_ret, ledgerVars, threadVars, translatorVars, feedbackVars, harnessVars, hitlVars>>

\* No simulator constructed yet
InitChaos == Init /\ log_exists = FALSE

\* Two simulators in one process, their calls in any order
NextChaos == \E s \in SimulatorIds : Construct(s) \/ StreamChaos(s) \/ Pull(s)

SpecChaos == InitChaos /\ [][NextChaos]_vars

\* A simulator is constructed only when every other one has been streamed to its end
ConstructRun(s) ==
    /\ \A other \in SimulatorIds \ {s} :
          ~simulators[other].constructed \/ generators[other].state = "exhausted"
    /\ Construct(s)

\* One run after the other: construct, stream, consume
NextRuns == \E s \in SimulatorIds : ConstructRun(s) \/ StreamChaos(s) \/ Pull(s)

SpecRuns == InitChaos /\ [][NextRuns]_vars


-----------------------------------------------------------------------------
(* Properties of the drift simulator's streams *)

\* stream_chaos called with the same arguments on simulators constructed alike
SameParameters(s1, s2) ==
    /\ simulators[s1].constructed
    /\ simulators[s2] = simulators[s1]
    /\ generators[s1].state # "none"
    /\ generators[s2].state # "none"
    /\ generators[s2].num_samples = generators[s1].num_samples
    /\ generators[s2].entropy_type = generators[s1].entropy_type

\* C16: two runs, each one a DriftSimulator constructed with the seed and streamed
\* to its end before the next is constructed, that agree on schema, seed,
\* num_samples, distribution and forced entropy type yield the same sequence of
\* (clean_name, corrupted_name, entropy_type) samples.
C16_Determinism ==
    \A s1, s2 \in SimulatorIds :
        (SameParameters(s1, s2) /\ generators[s1].state = "exhausted") =>
            /\ \A k \in 1..Len(generators[s2].yielded) :
                  generators[s2].yielded[k] = generators[s1].yielded[k]
            /\ generators[s2].state = "exhausted" =>
                  generators[s2].yielded = generators[s1].yielded

\* Two finished runs of two forced truncation samples, seed 42
C16_Witness ==
    /\ SameParameters("sim1", "sim2")
    /\ simulators["sim1"].seed = 42
    /\ generators["sim1"].state = "exhausted"
    /\ generators["sim2"].state = "exhausted"
    /\ generators["sim1"].entropy_type = "truncation"
    /\ Len(generators["sim1"].yielded) = 2
    /\ generators["sim2"].yielded = generators["sim1"].yielded

\* The first k samples of a stream of the simulator when nothing else in the
\* process draws from module random after its construction
RECURSIVE StreamAlone(_, _, _)
StreamAlone(simulator, entropy_type, k) ==
    IF k = 0 THEN [yielded |-> <<>>, rng |-> Reseed(0, simulator.seed)]
    ELSE LET before == StreamAlone(simulator, entropy_type, k - 1)
             next   == NextSample(simulator, entropy_type, before.rng)
         IN  [yielded |-> Append(before.yielded, next.sample), rng |-> next.rng]

\* C17 as stated: the samples the stream of a DriftSimulator yields are the same
\* whether or not another DriftSimulator is constructed, or another stream is
\* pulled from, in between its draws.
C17_Original ==
    \A s \in SimulatorIds :
        generators[s].state # "none" =>
            generators[s].yielded
                = StreamAlone(simulators[s], generators[s].entropy_type,
                              Len(generators[s].yielded)).yielded

Names == DirectNames \cup {CleanNames[i] : i \in 1..Len(CleanNames)}

\* The sets of positions random.sample can fall on
PositionSets(clean_name) ==
    {positions \in SUBSET (1..Len(clean_name)) :
        Cardinality(positions) \in 1..MostRemoved(clean_name)}

\* What inject_truncation can turn each name into, over every outcome of its draws
TruncationResults ==
    [clean_name \in Names |->
        IF Len(clean_name) <= 3 THEN {clean_name}
        ELSE {InjectTruncationWith(clean_name, positions) : positions \in PositionSets(clean_name)}]

\* What inject_synonyms can turn each name into
SynonymResults ==
    [clean_name \in Names |->
        IF SynonymsFor(clean_name) = <<>> THEN {clean_name}
        ELSE {InjectSynonymsWith(clean_name, choice) : choice \in 1..Len(SynonymsFor(clean_name))}]

\* What inject_noise can turn each name into
NoiseResults ==
    [clean_name \in Names |->
        {InjectNoiseWith(clean_name, TRUE, choice) : choice \in 1..Len(NOISE_SUFFIXES)}
            \cup {InjectNoiseWith(clean_name, FALSE, choice) : choice \in 1..Len(NOISE_PREFIXES)}]

\* The names an entropy type can turn clean_name into
OperatorResults(selected_type, clean_name) ==
    IF selected_type = "synonyms" THEN SynonymResults[clean_name]
    ELSE IF selected_type = "noise" THEN NoiseResults[clean_name]
    ELSE TruncationResults[clean_name]

\* C20: stream_chaos(num_samples = n) yields exactly n samples and then stops; each
\* sample's clean_name is a member of the schema, its entropy_type is one of the
\* three types and the forced type when one is given, and its corrupted_name is a
\* result of the operator for that entropy_type applied to clean_name.
C20_StreamShape ==
    \A s \in SimulatorIds :
        generators[s].state # "none" =>
            /\ Len(generators[s].yielded) <= generators[s].num_samples
            /\ generators[s].state = "exhausted" =>
                  Len(generators[s].yielded) = generators[s].num_samples
            /\ \A k \in 1..Len(generators[s].yielded) :
                  LET sample == generators[s].yielded[k]
                  IN  /\ \E i \in 1..Len(simulators[s].clean_names) :
                            sample.clean_name = simulators[s].clean_names[i]
                      /\ sample.entropy_type \in {"synonyms", "noise", "truncation"}
                      /\ generators[s].entropy_type # "None" =>
                            sample.entropy_type = generators[s].entropy_type
                      /\ sample.corrupted_name
                            \in OperatorResults(sample.entropy_type, sample.clean_name)

\* A stream of two forced synonym samples consumed to its end
C20_Witness ==
    /\ generators["sim1"].state = "exhausted"
    /\ generators["sim1"].num_samples = 2
    /\ generators["sim1"].entropy_type = "synonyms"
    /\ Len(generators["sim1"].yielded) = 2
    /\ generators["sim1"].yielded[2].corrupted_name # generators["sim1"].yielded[2].clean_name


-----------------------------------------------------------------------------
(* The operators and calibrate_entropy called directly on a simulator *)

\* simulator.inject_synonyms(clean_name)
CallInjectSynonyms(s) ==
    /\ simulators[s].constructed
    /\ \E clean_name \in DirectNames :
          LET result == InjectSynonyms(clean_name, rng_state)
          IN  /\ chaos_ret' = [kind |-> "inject_synonyms", clean_name |-> clean_name,
                               value |-> result.value]
              /\ rng_state' = result.rng
    /\ UNCHANGED <<simulators, generators, ledgerVars, threadVars, translatorVars, feedbackVars, harnessVars, hitlVars>>

\* simulator.inject_noise(clean_name)
CallInjectNoise(s) ==
    /\ simulators[s].constructed
    /\ \E clean_name \in DirectNames :
          LET result == InjectNoise(clean_name, rng_state)
          IN  /\ chaos_ret' = [kind |-> "inject_noise", clean_name |-> clean_name,
                               value |-> result.value]
              /\ rng_state' = result.rng
    /\ UNCHANGED <<simulators, generators, ledgerVars, threadVars, translatorVars, feedbackVars, harnessVars, hitlVars>>

\* simulator.inject_truncation(clean_name)
CallInjectTruncation(s) ==
    /\ simulators[s].constructed
    /\ \E clean_name \in DirectNames :
          LET result == InjectTruncation(clean_name, rng_state)
          IN  /\ chaos_ret' = [kind |-> "inject_truncation", clean_name |-> clean_name,
                               value |-> result.value]
              /\ rng_state' = result.rng
    /\ UNCHANGED <<simulators, generators, ledgerVars, threadVars, translatorVars, feedbackVars, harnessVars, hitlVars>>

\* new_dist[etype] = prob * scale_factor, scale_factor = 1.0 - target_accuracy
Rescaled(distribution, target_accuracy) ==
    [etype \in DOMAIN distribution |-> distribution[etype] * (100 - target_accuracy)]

\* total = sum(new_dist.values())
Total(new_dist) == new_dist.synonyms + new_dist.noise + new_dist.truncation

\* {k: v / total for k, v in new_dist.items()}, in hundredths
Normalized(new_dist) ==
    [etype \in DOMAIN new_dist |-> (new_dist[etype] * 100) \div Total(new_dist)]

\* simulator.calibrate_entropy(target_accuracy); the division by a total of zero
\* raises before entropy_distribution is assigned
CalibrateEntropy(s) ==
    /\ simulators[s].constructed
    /\ \E target_accuracy \in TargetAccuracies :
          LET new_dist == Rescaled(simulators[s].entropy_distribution, target_accuracy)
          IN  IF Total(new_dist) = 0
              THEN /\ chaos_ret' = [kind |-> "calibrate_entropy", target_accuracy |-> target_accuracy,
                                    raised |-> "ZeroDivisionError",
                                    value |-> simulators[s].entropy_distribution]
                   /\ UNCHANGED simulators
              ELSE /\ simulators' = [simulators EXCEPT ![s].entropy_distribution = Normalized(new_dist)]
                   /\ chaos_ret' = [kind |-> "calibrate_entropy", target_accuracy |-> target_accuracy,
                                    raised |-> "None", value |-> Normalized(new_dist)]
    /\ UNCHANGED <<rng_state, generators, ledgerVars, threadVars, translatorVars, feedbackVars, harnessVars, hitlVars>>

NextOperators ==
    \E s \in SimulatorIds :
        \/ Construct(s)
        \/ CallInjectSynonyms(s)
        \/ CallInjectNoise(s)
        \/ CallInjectTruncation(s)
        \/ CalibrateEntropy(s)

SpecOperators == InitChaos /\ [][NextOperators]_vars

\* a is b with some characters left out, the others in their order
RECURSIVE IsSubsequence(_, _)
IsSubsequence(a, b) ==
    IF a = <<>> THEN TRUE
    ELSE IF b = <<>> THEN FALSE
    ELSE IF Head(a) = Head(b) THEN IsSubsequence(Tail(a), Tail(b))
    ELSE IsSubsequence(a, Tail(b))

TruncationShape(clean_name, corrupted) ==
    IF Len(clean_name) <= 3 THEN corrupted = clean_name
    ELSE /\ Len(corrupted) < Len(clean_name)
         /\ Len(clean_name) - Len(corrupted) \in 1..3
         /\ IsSubsequence(corrupted, clean_name)

\* Every outcome of the draws of inject_truncation, for every name
EveryTruncationShaped ==
    \A clean_name \in Names : \A positions \in PositionSets(clean_name) :
        TruncationShape(clean_name, InjectTruncationWith(clean_name, positions))

\* C18: inject_truncation returns its input unchanged for any name of length <= 3;
\* for any longer name the result is strictly shorter, lacks between 1 and 3
\* characters, and is an order-preserving subsequence of the input.
C18_TruncationShape ==
    /\ EveryTruncationShaped
    /\ chaos_ret.kind = "inject_truncation" =>
          TruncationShape(chaos_ret.clean_name, chaos_ret.value)

\* "pressure" with three characters dropped
C18_Witness ==
    /\ chaos_ret.kind = "inject_truncation"
    /\ Len(chaos_ret.clean_name) = 8
    /\ Len(chaos_ret.value) = 5

\* A name of three characters returned as it was
C18_WitnessShort ==
    /\ chaos_ret.kind = "inject_truncation"
    /\ Len(chaos_ret.clean_name) = 3
    /\ chaos_ret.value = chaos_ret.clean_name

\* C19 as stated: calibrate_entropy(target_accuracy) completes for any
\* target_accuracy in [0, 1], and afterwards the weights of the entropy
\* distribution sum to 1.0.
C19_Original ==
    chaos_ret.kind = "calibrate_entropy" =>
        /\ chaos_ret.raised = "None"
        /\ chaos_ret.value.synonyms + chaos_ret.value.noise + chaos_ret.value.truncation = 100


-----------------------------------------------------------------------------
(* A second ledger handle over the same log file: a later validation run, or the
   process restarted.  The dataclass starts every handle at its field defaults. *)

\* TamperEvidentLog(log_file=...), __post_init__ included: the file is not read
NewHandle ==
    /\ \A t \in Threads : pc[t] = "idle"
    /\ current_hash' = GENESIS
    /\ transaction_count' = 0
    /\ lastOp' = "new_handle"
    /\ ret' = <<>>
    /\ UNCHANGED <<log_exists, log, tamper, threadVars, translatorVars, feedbackVars, chaosVars, harnessVars, hitlVars>>

NextHandles ==
    \/ LogTransaction
    \/ VerifyChainIntegrity
    \/ NewHandle

SpecHandles == Init /\ [][NextHandles]_vars

\* C26 as stated: when a new handle is constructed over a log file that holds a
\* valid non-empty chain and log_transaction is called on it, the appended record's
\* previous_hash is the transaction_hash of the last existing record, and
\* verify_chain_integrity over the whole file still returns valid.
C26_Original ==
    (/\ lastOp = "log_transaction"
     /\ Len(log) >= 2
     /\ transaction_count < Len(log)
     /\ VerifyLoop(SubSeq(log, 1, Len(log) - 1), 1, GENESIS)) =>
        /\ log[Len(log)].previous_hash = log[Len(log) - 1].transaction_hash
        /\ VerifyResult(log_exists, log, transaction_count)[1] = TRUE

-----------------------------------------------------------------------------
(* Records of the log file removed or reordered behind the ledger's back *)

\* the file without its k-th line
WithoutLine(lines, k) == SubSeq(lines, 1, k - 1) \o SubSeq(lines, k + 1, Len(lines))

\* the file with its k-th and (k+1)-th lines exchanged
WithSwappedLines(lines, k) ==
    [j \in 1..Len(lines) |-> IF j = k THEN lines[k + 1] ELSE IF j = k + 1 THEN lines[k] ELSE lines[j]]

\* A record other than the last one deleted
DeleteInterior ==
    /\ tamper = NoTamper
    /\ \A t \in Threads : pc[t] = "idle"
    /\ \E k \in 1..(Len(log) - 1) :
          /\ log' = WithoutLine(log, k)
          /\ tamper' = [kind |-> "delete", at |-> k]
    /\ lastOp' = "edit"
    /\ ret' = <<>>
    /\ UNCHANGED <<log_exists, current_hash, transaction_count, threadVars, translatorVars, feedbackVars, chaosVars, harnessVars, hitlVars>>

\* Two adjacent records exchanged
SwapAdjacent ==
    /\ tamper = NoTamper
    /\ \A t \in Threads : pc[t] = "idle"
    /\ \E k \in 1..(Len(log) - 1) :
          /\ log' = WithSwappedLines(log, k)
          /\ tamper' = [kind |-> "swap", at |-> k]
    /\ lastOp' = "edit"
    /\ ret' = <<>>
    /\ UNCHANGED <<log_exists, current_hash, transaction_count, threadVars, translatorVars, feedbackVars, chaosVars, harnessVars, hitlVars>>

\* The last records removed, kept records left of them
TruncateTail ==
    /\ tamper = NoTamper
    /\ \A t \in Threads : pc[t] = "idle"
    /\ \E kept \in 0..(Len(log) - 1) :
          /\ log' = SubSeq(log, 1, kept)
          /\ tamper' = [kind |-> "truncate", at |-> kept]
    /\ lastOp' = "edit"
    /\ ret' = <<>>
    /\ UNCHANGED <<log_exists, current_hash, transaction_count, threadVars, translatorVars, feedbackVars, chaosVars, harnessVars, hitlVars>>

NextStructure ==
    \/ LogTransaction
    \/ VerifyChainIntegrity
    \/ DeleteInterior
    \/ SwapAdjacent
    \/ TruncateTail

SpecStructure == Init /\ [][NextStructure]_vars

C27_WitnessSwap ==
    /\ Verified
    /\ tamper = [kind |-> "swap", at |-> 1]
    /\ ret[1] = FALSE

-----------------------------------------------------------------------------
(* Log and feedback files holding lines that are not JSON: a write cut short,
   a line edited by hand, an empty line *)

\* the lines a line of a file can be replaced by
BrokenLines == {GarbageLine, BlankLine}

\* the file with its k-th line replaced, or with one more line when k is past the end
WithLine(lines, k, line) == [j \in 1..(IF k > Len(lines) THEN k ELSE Len(lines)) |-> IF j = k THEN line ELSE lines[j]]

\* A line of the log file replaced by, or a line appended that is, not JSON
GarbleLog ==
    /\ tamper = NoTamper
    /\ log_exists
    /\ \A t \in Threads : pc[t] = "idle"
    /\ \E k \in 1..(Len(log) + 1), line \in BrokenLines :
          /\ k <= MaxTx
          /\ log' = WithLine(log, k, line)
          /\ tamper' = [kind |-> "garble", at |-> k]
    /\ lastOp' = "edit"
    /\ ret' = <<>>
    /\ UNCHANGED <<log_exists, current_hash, transaction_count, threadVars, translatorVars, feedbackVars, chaosVars, harnessVars, hitlVars>>

\* A line of the feedback file replaced by, or a line appended that is, not JSON
GarbleFeedback ==
    /\ \A k \in 1..Len(feedback_file) : ~Unparsable(feedback_file[k])
    /\ \E k \in 1..(Len(feedback_file) + 1), line \in BrokenLines :
          feedback_file' = WithLine(feedback_file, k, line)
    /\ fbOp' = "edit"
    /\ fbRet' = [kind |-> "none"]
    /\ UNCHANGED <<feedback_cache, ledgerVars, threadVars, translatorVars, chaosVars, harnessVars, hitlVars>>

\* export_provenance_dataframe()
ExportProvenanceDataframe ==
    /\ \A t \in Threads : pc[t] = "idle"
    /\ ret' = ExportResult(log_exists, log)
    /\ lastOp' = "export_provenance_dataframe"
    /\ UNCHANGED <<log_exists, log, current_hash, transaction_count, tamper, threadVars, translatorVars, feedbackVars, chaosVars, harnessVars, hitlVars>>

\* a feedback record an earlier session wrote
EarlierFeedback == FeedbackRecord("t0", "hr_watch_01", "Heart Rate (bpm)", "None", "approved")

\* The feedback file as earlier sessions left it, empty or holding one record, and
\* a manager constructed over it; no log file yet
InitMalformed ==
    /\ log_exists = FALSE
    /\ log = <<>>
    /\ current_hash = GENESIS
    /\ transaction_count = 0
    /\ lastOp = "init"
    /\ ret = <<>>
    /\ tamper = NoTamper
    /\ pc = [t \in Threads |-> "idle"]
    /\ local = [t \in Threads |-> <<>>]
    /\ learned_mappings = <<>>
    /\ resolution_method_used = "None"
    /\ learned_mapping_hits = 0
    /\ bert_fallback_count = 0
    /\ encode_calls = <<>>
    /\ call = <<>>
    /\ resolved = <<>>
    /\ feedback_file \in {<<>>, <<EarlierFeedback>>}
    /\ feedback_cache = feedback_file
    /\ fbOp = "init"
    /\ fbRet = [kind |-> "none"]
    /\ ChaosIdle
    /\ HarnessIdle
    /\ HitlIdle

NextMalformed ==
    \/ LogTransaction
    \/ VerifyChainIntegrity
    \/ ExportProvenanceDataframe
    \/ GarbleLog
    \/ LoadFeedback
    \/ GarbleFeedback

SpecMalformed == InitMalformed /\ [][NextMalformed]_vars

\* the lines of a file that parse as JSON
ParsableLines(lines) == SelectSeq(lines, LAMBDA line : ~Unparsable(line))

\* C23 as stated: a line that cannot be parsed as JSON is skipped and never fatal
\* when FeedbackManager loads the feedback file, when verify_chain_integrity reads
\* the ledger and when export_provenance_dataframe reads it; an integrity violation
\* is reported through the (false, report) return value, never by an exception.
C23_Original ==
    /\ lastOp = "verify_chain_integrity" =>
          ret = VerifyResult(log_exists, ParsableLines(log), transaction_count)
    /\ lastOp = "export_provenance_dataframe" =>
          ret = ExportResult(log_exists, ParsableLines(log))
    /\ fbOp = "load_feedback" =>
          /\ fbRet.kind # "raise"
          /\ feedback_cache = ParsableLines(feedback_file)


-----------------------------------------------------------------------------
(* HumanInTheLoopOrchestrator: reviews submitted, approved and corrected *)

MaxReviews == 3
ReviewConfidences == {40, 90}
CorrectMatches == {"Pulse (bpm)"}
SessionId == "session_t0"

\* review = {...}
Review(now, raw_field, suggested_match, confidence_score) ==
    [ raw_field        |-> raw_field,
      suggested_match  |-> suggested_match,
      confidence_score |-> confidence_score,
      source_name      |-> "unknown",
      context          |-> <<>>,
      timestamp        |-> now,
      status           |-> "pending" ]

\* the newest pending review of raw_field
LastPending(pending, raw_field) ==
    CHOOSE k \in 1..Len(pending) :
        /\ pending[k].raw_field = raw_field
        /\ \A j \in (k + 1)..Len(pending) : pending[j].raw_field # raw_field

\* pending[0] of [r for r in self.pending_approvals if r['raw_field'] == raw_field],
\* as its position in pending_approvals
FirstPending(pending, raw_field) ==
    CHOOSE k \in 1..Len(pending) :
        /\ pending[k].raw_field = raw_field
        /\ \A j \in 1..(k - 1) : pending[j].raw_field # raw_field

\* self.pending_approvals.remove(review): the first item equal to review goes
Removed(pending, review) ==
    LET k == CHOOSE k \in 1..Len(pending) :
                 /\ pending[k] = review
                 /\ \A j \in 1..(k - 1) : pending[j] # review
    IN  SubSeq(pending, 1, k - 1) \o SubSeq(pending, k + 1, Len(pending))

\* record_feedback(..., confidence_score=review['confidence_score'],
\* source_name=review['source_name'], session_id=self.session_id)
ReviewFeedback(now, review, human_correction, feedback_type) ==
    [FeedbackRecord(now, review.raw_field, review.suggested_match, human_correction, feedback_type)
        EXCEPT !.confidence_score = review.confidence_score,
               !.source_name = review.source_name,
               !.session_id = SessionId]

\* submit_resolution_for_review(raw_field, suggested_match, confidence_score)
SubmitResolutionForReview ==
    /\ submitted < MaxReviews
    /\ \E now \in FeedbackNow, raw_field \in RawFields, suggested_match \in SuggestedMatches,
          confidence_score \in ReviewConfidences :
          LET review == Review(now, raw_field, suggested_match, confidence_score)
          IN  /\ pending_approvals' = Append(pending_approvals, review)
              /\ fbRet' = [kind |-> "review", value |-> review]
    /\ submitted' = submitted + 1
    /\ fbOp' = "submit_resolution_for_review"
    /\ UNCHANGED <<feedback_file, feedback_cache, ledgerVars, threadVars, translatorVars, chaosVars, harnessVars>>

\* the body that approve_resolution and correct_resolution share
Decide(raw_field, human_correction, feedback_type) ==
    /\ IF \A k \in 1..Len(pending_approvals) : pending_approvals[k].raw_field # raw_field
       THEN UNCHANGED <<pending_approvals, feedback_file, feedback_cache>>
       ELSE \E now \in FeedbackNow :
               LET review == pending_approvals[FirstPending(pending_approvals, raw_field)]
                   record == ReviewFeedback(now, review, human_correction, feedback_type)
               IN  /\ feedback_file' = AppendToFile(feedback_file, record)
                   /\ feedback_cache' = AppendToCache(feedback_cache, record)
                   /\ pending_approvals' = Removed(pending_approvals, review)
    /\ fbRet' = [kind |-> "none", raw_field |-> raw_field]
    /\ UNCHANGED <<submitted, ledgerVars, threadVars, translatorVars, chaosVars, harnessVars>>

\* approve_resolution(raw_field)
ApproveResolution ==
    /\ \E raw_field \in RawFields : Decide(raw_field, "None", "approved")
    /\ fbOp' = "approve_resolution"

\* correct_resolution(raw_field, correct_match)
CorrectResolution ==
    /\ \E raw_field \in RawFields, correct_match \in CorrectMatches :
          Decide(raw_field, correct_match, "corrected")
    /\ fbOp' = "correct_resolution"

NextHitl ==
    \/ SubmitResolutionForReview
    \/ ApproveResolution
    \/ CorrectResolution

SpecHitl == InitFeedback /\ [][NextHitl]_vars

\* the positions of the pending reviews of raw_field
PendingOf(raw_field) == {k \in 1..Len(pending_approvals) : pending_approvals[k].raw_field = raw_field}

\* One review left pending_approvals, the oldest of raw_field, and one record of
\* feedback_type made from it was appended to the feedback store
OldestDecided(raw_field, feedback_type) ==
    \E k \in PendingOf(raw_field) :
        /\ \A j \in PendingOf(raw_field) : k <= j
        /\ pending_approvals' = SubSeq(pending_approvals, 1, k - 1) \o SubSeq(pending_approvals, k + 1, Len(pending_approvals))
        /\ Len(feedback_cache') = Len(feedback_cache) + 1
        /\ SubSeq(feedback_cache', 1, Len(feedback_cache)) = feedback_cache
        /\ feedback_file' = feedback_cache'
        /\ LET record == feedback_cache'[Len(feedback_cache')]
           IN  /\ record.feedback_type = feedback_type
               /\ record.raw_field = raw_field
               /\ record.suggested_match = pending_approvals[k].suggested_match
               /\ record.confidence_score = pending_approvals[k].confidence_score

DecisionStep(feedback_type) ==
    IF PendingOf(fbRet'.raw_field) = {}
    THEN UNCHANGED <<pending_approvals, feedback_file, feedback_cache>>
    ELSE OldestDecided(fbRet'.raw_field, feedback_type)

HitlStep ==
    /\ fbOp' = "approve_resolution" => DecisionStep("approved")
    /\ fbOp' = "correct_resolution" => DecisionStep("corrected")

Conserved == submitted = Len(pending_approvals) + Len(feedback_cache)

\* C30: after any sequence of submit_resolution_for_review, approve_resolution and
\* correct_resolution calls, the number of reviews submitted is the number still in
\* pending_approvals plus the number of feedback records the orchestrator recorded;
\* an approve/correct with a matching pending review removes exactly one review,
\* the oldest for that raw_field, and appends exactly one feedback record of the
\* corresponding type; one with no matching review changes neither
\* pending_approvals nor the feedback store.
C30_ReviewConservation == []Conserved /\ [][HitlStep]_vars

\* Two reviews of one field submitted with different confidences, a third of the
\* other field, and the older of the two corrected: the newer one is still pending
C30_Witness ==
    /\ fbOp = "correct_resolution"
    /\ submitted = 3
    /\ Len(pending_approvals) = 2
    /\ Len(feedback_cache) = 1
    /\ feedback_cache[1].feedback_type = "corrected"
    /\ feedback_cache[1].raw_field = "spd"
    /\ feedback_cache[1].confidence_score = 40
    /\ \E k \in 1..2 : pending_approvals[k].raw_field = "spd" /\ pending_approvals[k].confidence_score = 90

\* An approval of a field that has no pending review while another field has one
C30_WitnessNoMatch ==
    /\ fbOp = "approve_resolution"
    /\ Len(pending_approvals) > 0
    /\ PendingOf(fbRet.raw_field) = {}


-----------------------------------------------------------------------------
(* TranslatorRetrainer.recommend_threshold_adjustment over a feedback store.
   Confidences, thresholds and coverage are hundredths; accuracies are
   ten-thousandths, which is what round(accuracy, 4) keeps. *)

MaxRetrainRecords == 2
RetrainConfidences == {20, 30, 35, 70}

\* thresholds = [0.3, 0.35, 0.4, 0.45, 0.5, 0.55, 0.6, 0.65, 0.7]
ThresholdCandidates == <<30, 35, 40, 45, 50, 55, 60, 65, 70>>

\* [f for f in self.feedback_manager.feedback_cache if f['confidence_score'] >= threshold]
AboveThreshold(cache, threshold) == SelectSeq(cache, LAMBDA f : f.confidence_score >= threshold)

\* sum(1 for f in above_threshold if f['feedback_type'] == FEEDBACK_TYPE_APPROVED)
ApprovedIn(above_threshold) == Len(SelectSeq(above_threshold, LAMBDA f : f.feedback_type = "approved"))

\* round(num / den, 4) in ten-thousandths, an exact half going to the even neighbour
Rounded4(num, den) ==
    LET q == (num * 10000) \div den
        r == (num * 10000) % den
    IN  IF 2 * r > den \/ (2 * r = den /\ q % 2 = 1) THEN q + 1 ELSE q

\* accuracy_by_threshold, as its items in insertion order
RECURSIVE AccuracyByThreshold(_, _)
AccuracyByThreshold(cache, i) ==
    IF i = 0 THEN <<>>
    ELSE LET before          == AccuracyByThreshold(cache, i - 1)
             above_threshold == AboveThreshold(cache, ThresholdCandidates[i])
         IN  IF Len(above_threshold) = 0 THEN before
             ELSE Append(before,
                         [threshold |-> ThresholdCandidates[i],
                          accuracy  |-> Rounded4(ApprovedIn(above_threshold), Len(above_threshold)),
                          coverage  |-> Rounded4(Len(above_threshold), Len(cache))])

\* max(accuracy_by_threshold.items(), key=lambda x: x[1]['accuracy'])[0]
\*     if accuracy_by_threshold else 0.45
BestThreshold(accuracy_by_threshold) ==
    IF Len(accuracy_by_threshold) = 0 THEN 45
    ELSE LET best == CHOOSE j \in 1..Len(accuracy_by_threshold) :
                        /\ \A k \in 1..Len(accuracy_by_threshold) :
                              accuracy_by_threshold[k].accuracy <= accuracy_by_threshold[j].accuracy
                        /\ \A k \in 1..(j - 1) :
                              accuracy_by_threshold[k].accuracy < accuracy_by_threshold[j].accuracy
         IN  accuracy_by_threshold[best].threshold

\* recommend_threshold_adjustment()
RecommendThresholdAdjustmentOf(cache) ==
    IF Len(cache) = 0
    THEN [kind |-> "no_data", current_threshold |-> 45, accuracy_at_thresholds |-> <<>>]
    ELSE LET accuracy_by_threshold == AccuracyByThreshold(cache, Len(ThresholdCandidates))
         IN  [kind |-> "recommendation",
              current_threshold |-> 45,
              recommended_threshold |-> BestThreshold(accuracy_by_threshold),
              accuracy_at_thresholds |-> accuracy_by_threshold]

RecommendThresholdAdjustment ==
    /\ fbRet' = RecommendThresholdAdjustmentOf(feedback_cache)
    /\ fbOp' = "recommend_threshold_adjustment"
    /\ UNCHANGED <<feedback_file, feedback_cache, ledgerVars, threadVars, translatorVars, chaosVars, harnessVars, hitlVars>>

\* the records earlier sessions can have stored
RetrainRecords ==
    {[FeedbackRecord("t0", "spd", "Heart Rate (bpm)", "None", feedback_type)
         EXCEPT !.confidence_score = confidence_score] :
        feedback_type \in ValidFeedbackTypes, confidence_score \in RetrainConfidences}

\* A large store: one rejected record of confidence 0.30, one approved and 199
\* rejected records of confidence 0.70
LargeStore ==
    [i \in 1..201 |->
        [FeedbackRecord("t0", "spd", "Heart Rate (bpm)", "None",
                        IF i = 2 THEN "approved" ELSE "rejected")
            EXCEPT !.confidence_score = IF i = 1 THEN 30 ELSE 70]]

RetrainStores ==
    UNION {[1..n -> RetrainRecords] : n \in 0..MaxRetrainRecords} \cup {LargeStore}

\* A feedback manager loaded from the store earlier sessions left, and a
\* retrainer constructed over it
InitRetrain ==
    /\ log_exists = FALSE
    /\ log = <<>>
    /\ current_hash = GENESIS
    /\ transaction_count = 0
    /\ lastOp = "init"
    /\ ret = <<>>
    /\ tamper = NoTamper
    /\ pc = [t \in Threads |-> "idle"]
    /\ local = [t \in Threads |-> <<>>]
    /\ learned_mappings = <<>>
    /\ resolution_method_used = "None"
    /\ learned_mapping_hits = 0
    /\ bert_fallback_count = 0
    /\ encode_calls = <<>>
    /\ call = <<>>
    /\ resolved = <<>>
    /\ feedback_file \in RetrainStores
    /\ feedback_cache = feedback_file
    /\ fbOp = "init"
    /\ fbRet = [kind |-> "none"]
    /\ ChaosIdle
    /\ HarnessIdle
    /\ HitlIdle

NextRetrain == RecommendThresholdAdjustment

SpecRetrain == InitRetrain /\ [][NextRetrain]_vars

\* the candidates with at least one record at or above them
Eligible == {c \in {ThresholdCandidates[i] : i \in 1..Len(ThresholdCandidates)} :
                Len(AboveThreshold(feedback_cache, c)) > 0}

\* accuracy at candidate c is at most accuracy at candidate d
AccuracyAtMost(c, d) ==
    ApprovedIn(AboveThreshold(feedback_cache, c)) * Len(AboveThreshold(feedback_cache, d))
        <= ApprovedIn(AboveThreshold(feedback_cache, d)) * Len(AboveThreshold(feedback_cache, c))

\* C24 as stated: recommend_threshold_adjustment returns as recommended_threshold
\* the candidate of 0.30, 0.35, ..., 0.70 that maximizes (Approved records with
\* confidence >= candidate) / (all records with confidence >= candidate) among the
\* candidates that have at least one record at or above them, the first such
\* candidate on ties; with no feedback at all it returns a no-data result.
C24_Original ==
    fbOp = "recommend_threshold_adjustment" =>
        /\ Len(feedback_cache) = 0 => fbRet.kind = "no_data"
        /\ Eligible # {} =>
              /\ fbRet.kind = "recommendation"
              /\ fbRet.recommended_threshold \in Eligible
              /\ \A c \in Eligible : AccuracyAtMost(c, fbRet.recommended_threshold)
              /\ \A c \in Eligible :
                    c < fbRet.recommended_threshold => ~AccuracyAtMost(fbRet.recommended_threshold, c)


-----------------------------------------------------------------------------
(* BaselineComparators, run_comparison and the validation harness that logs its
   results.  Field names are tuples of characters as in the DriftSimulator model;
   scores and confidences are fractions [num, den] compared by cross-multiplication;
   None and the string "UNRESOLVED" are tuples of one element that no name equals. *)

None == <<"None">>
UNRESOLVED == <<"UNRESOLVED">>

Fraction(num, den) == [num |-> num, den |-> den]

\* x < y
Less(x, y) == x.num * y.den < y.num * x.den

RECURSIVE GCD(_, _)
GCD(m, n) == IF n = 0 THEN m ELSE GCD(n, m % n)

\* x + y, in lowest terms
Plus(x, y) ==
    LET num == x.num * y.den + y.num * x.den
        den == x.den * y.den
    IN  Fraction(num \div GCD(num, den), den \div GCD(num, den))

\* the length of the longest common run of a[i..ahi] and b[j..bhi] that starts at i and j
RECURSIVE CommonLen(_, _, _, _, _, _)
CommonLen(a, b, i, j, ahi, bhi) ==
    IF i > ahi \/ j > bhi THEN 0
    ELSE IF a[i] # b[j] THEN 0
    ELSE 1 + CommonLen(a, b, i + 1, j + 1, ahi, bhi)

\* SequenceMatcher.find_longest_match without junk: the longest block, of those the
\* one that starts earliest in a, and of those the one that starts earliest in b
FindLongestMatch(a, b, alo, ahi, blo, bhi) ==
    LET size == CHOOSE k \in 0..(ahi - alo + 1) :
                    /\ k = 0 \/ \E i \in alo..ahi, j \in blo..bhi : CommonLen(a, b, i, j, ahi, bhi) = k
                    /\ \A i \in alo..ahi, j \in blo..bhi : CommonLen(a, b, i, j, ahi, bhi) <= k
        i    == CHOOSE i \in alo..ahi :
                    /\ \E j \in blo..bhi : CommonLen(a, b, i, j, ahi, bhi) = size
                    /\ \A h \in alo..(i - 1), j \in blo..bhi : CommonLen(a, b, h, j, ahi, bhi) # size
        j    == CHOOSE j \in blo..bhi :
                    /\ CommonLen(a, b, i, j, ahi, bhi) = size
                    /\ \A h \in blo..(j - 1) : CommonLen(a, b, i, h, ahi, bhi) # size
    IN  IF size = 0 THEN [i |-> alo, j |-> blo, size |-> 0] ELSE [i |-> i, j |-> j, size |-> size]

\* the sum of the sizes of SequenceMatcher.get_matching_blocks()
RECURSIVE MatchingSize(_, _, _, _, _, _)
MatchingSize(a, b, alo, ahi, blo, bhi) ==
    IF alo > ahi \/ blo > bhi THEN 0
    ELSE LET match == FindLongestMatch(a, b, alo, ahi, blo, bhi)
         IN  IF match.size = 0 THEN 0
             ELSE match.size
                  + MatchingSize(a, b, alo, match.i - 1, blo, match.j - 1)
                  + MatchingSize(a, b, match.i + match.size, ahi, match.j + match.size, bhi)

\* levenshtein_distance(target, input_str): SequenceMatcher(...).ratio() = 2.0 * M / T
levenshtein_distance(target, input_str) ==
    IF Len(target) = 0 /\ Len(input_str) = 0 THEN Fraction(1, 1)
    ELSE Fraction(2 * MatchingSize(Lower(target), Lower(input_str), 1, Len(target), 1, Len(input_str)),
                  Len(target) + Len(input_str))

\* "".join(c for c in name if c in "aeiou")
Vowels(name) == SelectSeq(name, LAMBDA c : c \in {"a", "e", "i", "o", "u"})

\* regex_matcher(target, input_str)
regex_matcher(target, input_str) ==
    LET target_lower == Lower(target)
        input_lower  == Lower(input_str)
    IN  IF target_lower = input_lower THEN Fraction(100, 100)
        ELSE IF IsSubstring(target_lower, input_lower) \/ IsSubstring(input_lower, target_lower)
        THEN Fraction(80, 100)
        ELSE IF /\ Len(target_lower) >= 5
                /\ Len(input_lower) >= 5
                /\ SubSeq(target_lower, 1, 3) = SubSeq(input_lower, 1, 3)
                /\ SubSeq(target_lower, Len(target_lower) - 1, Len(target_lower))
                      = SubSeq(input_lower, Len(input_lower) - 1, Len(input_lower))
        THEN Fraction(60, 100)
        ELSE IF Vowels(target_lower) = Vowels(input_lower) /\ Len(Vowels(target_lower)) >= 2
        THEN Fraction(50, 100)
        ELSE Fraction(0, 100)

\* max(scores, key=scores.get), the scores in the order of the schema: the position
\* of the first field with the highest score
BestField(scores) ==
    CHOOSE k \in 1..Len(scores) :
        /\ \A j \in 1..Len(scores) : ~Less(scores[k], scores[j])
        /\ \A j \in 1..(k - 1) : Less(scores[j], scores[k])

\* _mock_semantic_resolver(messy_field)
MockSemanticResolver(messy_field) ==
    [match      |-> SubSeq(messy_field, 1, IF Len(messy_field) < 15 THEN Len(messy_field) ELSE 15),
     confidence |-> Fraction(750 + (Len(messy_field) % 10) * 25, 1000)]

\* What a resolver can answer for a sample: the mock's answer, the clean field
\* with a confidence above the threshold, or no match
ResolverAnswers == {"mock", "hit", "miss"}

\* semantic_resolver(corrupted_field)
SemanticResolver(answer, sample) ==
    IF answer = "mock" THEN MockSemanticResolver(sample.corrupted_name)
    ELSE IF answer = "hit" THEN [match |-> sample.clean_name, confidence |-> Fraction(90, 100)]
    ELSE [match |-> None, confidence |-> Fraction(30, 100)]

\* one turn of the loop of run_comparison, the schema not empty
Compare(answer, sample, standard_schema) ==
    LET semantic           == SemanticResolver(answer, sample)
        levenshtein_scores == [k \in 1..Len(standard_schema) |->
                                  levenshtein_distance(standard_schema[k], sample.corrupted_name)]
        regex_scores       == [k \in 1..Len(standard_schema) |->
                                  regex_matcher(standard_schema[k], sample.corrupted_name)]
        levenshtein_match  == standard_schema[BestField(levenshtein_scores)]
        regex_match        == standard_schema[BestField(regex_scores)]
    IN  [clean_field            |-> sample.clean_name,
         corrupted_field        |-> sample.corrupted_name,
         entropy_type           |-> sample.entropy_type,
         semantic_match         |-> semantic.match,
         semantic_confidence    |-> semantic.confidence,
         semantic_correct       |-> semantic.match = sample.clean_name,
         levenshtein_match      |-> levenshtein_match,
         levenshtein_confidence |-> levenshtein_scores[BestField(levenshtein_scores)],
         levenshtein_correct    |-> levenshtein_match = sample.clean_name,
         regex_match            |-> regex_match,
         regex_confidence       |-> IF regex_match # <<>>
                                    THEN regex_scores[BestField(regex_scores)]
                                    ELSE Fraction(0, 100),
         regex_correct          |-> regex_match = sample.clean_name]

Methods == <<"semantic", "levenshtein", "regex">>

\* getattr(r, f"{method}_correct")
CorrectOf(r, method) ==
    IF method = "semantic" THEN r.semantic_correct
    ELSE IF method = "levenshtein" THEN r.levenshtein_correct
    ELSE r.regex_correct

\* getattr(r, f"{method}_confidence")
ConfidenceOf(r, method) ==
    IF method = "semantic" THEN r.semantic_confidence
    ELSE IF method = "levenshtein" THEN r.levenshtein_confidence
    ELSE r.regex_confidence

\* sum(1 for r in results if getattr(r, correct_attr))
CorrectCount(results, method) == Len(SelectSeq(results, LAMBDA r : CorrectOf(r, method)))

\* sum(getattr(r, conf_attr) for r in results)
RECURSIVE TotalConf(_, _, _)
TotalConf(results, method, i) ==
    IF i = 0 THEN Fraction(0, 1)
    ELSE Plus(TotalConf(results, method, i - 1), ConfidenceOf(results[i], method))

\* [r for r in results if r.entropy_type == entropy_type]
EntropyResults(results, entropy_type) == SelectSeq(results, LAMBDA r : r.entropy_type = entropy_type)

\* the entropy types the breakdown has an entry for: if entropy_results
EntropyTypesPresent(results) ==
    {EntropyTypes[i] : i \in {j \in 1..Len(EntropyTypes) : Len(EntropyResults(results, EntropyTypes[j])) > 0}}

\* correct_count / total if total > 0 else 0.0
Ratio(count, total) == IF total > 0 THEN Fraction(count, total) ELSE Fraction(0, 1)

\* _compute_metrics(results): the dict as a function of its keys, the key
\* f"{method}_accuracy" being <<method, "all", "accuracy">> and the key
\* f"{method}_{entropy_type}_accuracy" being <<method, entropy_type, "accuracy">>
_compute_metrics(results) ==
    LET methods == {Methods[i] : i \in 1..Len(Methods)}
        keys    == {<<method, "all", measure>> : method \in methods, measure \in {"accuracy", "avg_confidence"}}
                   \cup {<<method, entropy_type, "accuracy">> :
                            method \in methods, entropy_type \in EntropyTypesPresent(results)}
    IN  [key \in keys |->
            IF key[2] = "all"
            THEN IF key[3] = "accuracy"
                 THEN Ratio(CorrectCount(results, key[1]), Len(results))
                 ELSE IF Len(results) > 0
                      THEN LET total_conf == TotalConf(results, key[1], Len(results))
                           IN  Fraction(total_conf.num, total_conf.den * Len(results))
                      ELSE Fraction(0, 1)
            ELSE Fraction(CorrectCount(EntropyResults(results, key[2]), key[1]),
                          Len(EntropyResults(results, key[2])))]

\* run_comparison(semantic_resolver, chaos_stream, standard_schema): max() of the
\* empty levenshtein_scores raises ValueError in the first turn of the loop
run_comparison(answers, chaos_stream, standard_schema) ==
    IF Len(chaos_stream) > 0 /\ Len(standard_schema) = 0
    THEN [state |-> "raised", error |-> "ValueError",
          chaos_stream |-> chaos_stream, standard_schema |-> standard_schema]
    ELSE LET results == [i \in 1..Len(chaos_stream) |-> Compare(answers[i], chaos_stream[i], standard_schema)]
         IN  [state |-> "returned", results |-> results, metrics |-> _compute_metrics(results),
              chaos_stream |-> chaos_stream, standard_schema |-> standard_schema]

StandardSchemas == {<<>>, CleanNames}

\* simulator = DriftSimulator(target_fields, seed); chaos_list = list(stream_chaos(...));
\* results, metrics = run_comparison(resolver, chaos_list, schema)
RunComparison ==
    /\ comparison.state = "none"
    /\ \E seed \in Seeds, entropy_type \in EntropyTypeArgs, num_samples \in 0..MaxSamples,
          standard_schema \in StandardSchemas :
          LET simulator == [constructed |-> TRUE, clean_names |-> CleanNames, seed |-> seed,
                            entropy_distribution |-> DefaultDistribution]
              stream    == StreamAlone(simulator, entropy_type, num_samples)
          IN  /\ rng_state' = stream.rng
              /\ \E answers \in [1..num_samples -> ResolverAnswers] :
                    comparison' = run_comparison(answers, stream.yielded, standard_schema)
    /\ UNCHANGED <<logged, simulators, generators, chaos_ret, ledgerVars, threadVars, translatorVars, feedbackVars, hitlVars>>

\* the results in reverse
LastResultFirst(results, done) == results[Len(results) - done]

\* for result in results: the result of the turn after done turns
NextResult(results, done) == results[done + 1]

\* result.semantic_match or "UNRESOLVED"
MatchOrUnresolved(semantic_match) ==
    IF semantic_match = None \/ semantic_match = <<>> THEN UNRESOLVED ELSE semantic_match

\* metadata={"domain": "f1", "entropy_type": result.entropy_type}, as JSON text
HarnessMetadata ==
    [synonyms   |-> "{\"domain\": \"f1\", \"entropy_type\": \"synonyms\"}",
     noise      |-> "{\"domain\": \"f1\", \"entropy_type\": \"noise\"}",
     truncation |-> "{\"domain\": \"f1\", \"entropy_type\": \"truncation\"}"]

\* one turn of the loop of run_f1_validation that logs the results
LogResult ==
    /\ comparison.state = "returned"
    /\ logged < Len(comparison.results)
    /\ \E now \in Timestamps :
          LET result == NextResult(comparison.results, logged)
              tx     == WithHash(NewTransaction(transaction_count, now, result.corrupted_field,
                                                MatchOrUnresolved(result.semantic_match),
                                                result.semantic_confidence,
                                                HarnessMetadata[result.entropy_type], current_hash))
          IN  /\ log' = AppendLine(log, tx)
              /\ log_exists' = TRUE
              /\ current_hash' = AdvanceChainHead(current_hash, tx)
              /\ transaction_count' = IncrementCount(transaction_count)
              /\ lastOp' = "log_transaction"
              /\ ret' = tx
    /\ logged' = logged + 1
    /\ UNCHANGED <<comparison, tamper, threadVars, translatorVars, feedbackVars, chaosVars, hitlVars>>

NextHarness ==
    \/ RunComparison
    \/ LogResult

SpecHarness == InitChaos /\ [][NextHarness]_vars


\* x = y, for fractions
SameFraction(x, y) == x.num * y.den = y.num * x.den

\* the record the harness writes for a result
Describes(tx, result) ==
    /\ tx.original_field = result.corrupted_field
    /\ tx.mapped_field = (IF result.semantic_match = None THEN UNRESOLVED ELSE result.semantic_match)
    /\ tx.confidence = result.semantic_confidence
    /\ tx.metadata = HarnessMetadata[result.entropy_type]

\* C21: run_comparison returns exactly one ComparisonResult per chaos sample, in
\* input order, and the harness calls log_transaction once per result in that
\* order, an unresolved result being logged as "UNRESOLVED": ledger record i
\* describes sample i of the run.
C21_OneDecisionPerSample ==
    comparison.state = "returned" =>
        /\ Len(comparison.results) = Len(comparison.chaos_stream)
        /\ \A i \in 1..Len(comparison.results) :
              /\ comparison.results[i].clean_field = comparison.chaos_stream[i].clean_name
              /\ comparison.results[i].corrupted_field = comparison.chaos_stream[i].corrupted_name
              /\ comparison.results[i].entropy_type = comparison.chaos_stream[i].entropy_type
        /\ Len(log) = logged
        /\ logged <= Len(comparison.results)
        /\ \A i \in 1..Len(log) :
              /\ log[i].transaction_id = i - 1
              /\ Describes(log[i], comparison.results[i])
              /\ log[i].original_field = comparison.chaos_stream[i].corrupted_name

\* Two samples with different corrupted names compared and both logged, the first
\* resolved and the second unresolved
C21_Witness ==
    /\ comparison.state = "returned"
    /\ Len(comparison.results) = 2
    /\ logged = 2
    /\ Len(log) = 2
    /\ comparison.chaos_stream[1].corrupted_name # comparison.chaos_stream[2].corrupted_name
    /\ log[1].mapped_field = comparison.chaos_stream[1].clean_name
    /\ log[2].mapped_field = UNRESOLVED

\* the accuracy of method over the results of scope
AccuracyOver(results, method, scope) ==
    LET of_scope == IF scope = "all" THEN results ELSE EntropyResults(results, scope)
    IN  Ratio(CorrectCount(of_scope, method), Len(of_scope))

\* C22 as stated: accuracy per method is correct_count / total_samples, and per
\* entropy type the same ratio over the samples of that type; every such aggregate,
\* overall and per entropy type, for semantic, levenshtein and regex, is 0.0 rather
\* than an exception or a missing value when its input set has zero samples.
C22_Original ==
    comparison.state = "returned" =>
        \A m \in 1..Len(Methods), scope \in {"all"} \cup {EntropyTypes[i] : i \in 1..Len(EntropyTypes)} :
            /\ <<Methods[m], scope, "accuracy">> \in DOMAIN comparison.metrics
            /\ SameFraction(comparison.metrics[<<Methods[m], scope, "accuracy">>],
                            AccuracyOver(comparison.results, Methods[m], scope))

\* C25 as stated: run_comparison with an empty standard schema, or with zero
\* samples, and stream_chaos and the aggregation over zero samples, return
\* well-defined zero or empty results instead of raising.
C25_Original ==
    /\ \A seed \in Seeds, entropy_type \in EntropyTypeArgs :
          StreamAlone([constructed |-> TRUE, clean_names |-> CleanNames, seed |-> seed,
                       entropy_distribution |-> DefaultDistribution], entropy_type, 0).yielded = <<>>
    /\ \A m \in 1..Len(Methods) : _compute_metrics(<<>>)[<<Methods[m], "all", "accuracy">>] = Fraction(0, 1)
    /\ (/\ comparison.state # "none"
        /\ Len(comparison.chaos_stream) = 0 \/ Len(comparison.standard_schema) = 0) =>
          /\ comparison.state = "returned"
          /\ Len(comparison.chaos_stream) = 0 => comparison.results = <<>>

====
